---- MODULE Spec2Model ----
(***************************************************************************)
(* SiteSheets: the EV site-evaluation dashboard of src/ev_site_app.py.     *)
(*                                                                         *)
(* The model covers the site aggregator (process_site), the adapters it    *)
(* calls, the memo tables of st.cache_data / st.cache_resource, and the    *)
(* two Streamlit handlers that reach the aggregator: the single-site       *)
(* "Analyse Site" button and the batch "Process All Sites" loop.           *)
(* The adapters and utility functions with a contract of their own         *)
(* (traffic, stations, roads, amenities, kVA, brand, charger tier) are     *)
(* also exercised alone, on the answers and arguments they can be given.   *)
(*                                                                         *)
(* Encoding of Python values:                                              *)
(*   - str            -> a TLA+ string                                     *)
(*   - None           -> None (the empty tuple); a value that may be None  *)
(*                       is a non-empty tuple when present                 *)
(*   - dict           -> a function whose DOMAIN is the set of keys        *)
(*   - list           -> a sequence                                        *)
(*   - kVA            -> integer hundredths (round(x, 2))                  *)
(*   - percentages    -> integer hundredths of a percent (round(x, 2))     *)
(*   - coordinates    -> whole degrees                                     *)
(***************************************************************************)
EXTENDS Integers, Sequences, FiniteSets, TLC

VARIABLES
    upstream,       \* how each external collaborator answers during the session
    tomtom_key,     \* TRUE iff TOMTOM_API_KEY is a non-empty string
    cache,          \* memo tables of the @st.cache_data / @st.cache_resource functions
    session_state,  \* st.session_state: "single_site" and "batch_results"
    pc,             \* position of the script: "idle", "batch" (inside the row loop), "done"
    df_input,       \* the uploaded table (sequence of rows)
    idx,            \* index of the next row of the batch loop
    results,        \* the batch loop's local list `results`
    progress,       \* last value given to progress_bar.progress, as <<numerator, denominator>>
    messages,       \* st.error / st.success / st.warning calls of the running handler
    calls,          \* adapter invocations of the most recent process_site execution
    last,           \* the most recent process_site execution: arguments and outcome
    ran_fully,      \* argument tuples for which process_site has invoked every adapter
    passed,         \* rows of the current batch for which process_site was entered
    clicks,         \* button clicks (or direct calls) so far
    call,           \* a function exercised on its own: the arguments and answers it is given
    ret             \* what that call returned, None before it has run

vars == <<upstream, tomtom_key, cache, session_state, pc, df_input, idx, results,
          progress, messages, calls, last, ran_fully, passed, clicks, call, ret>>

-----------------------------------------------------------------------------
(* Bounds of the model *)

MaxFaults == 2      \* collaborators misbehaving at once when process_site is exercised directly
MaxSessionFaults == 1   \* collaborators misbehaving at once in a dashboard session
MaxRuns == 2        \* process_site executions / button clicks explored
MaxRows == 2        \* rows of an uploaded table
MaxChargers == 3    \* chargers of one tier when calculate_kva is exercised on its own
MaxNameLen == 4     \* characters of a station name when extract_brand_name is exercised on its own

-----------------------------------------------------------------------------
(* Python values *)

None == <<>>

Some(v) == <<v>>

\* The one element of a singleton: the statements of a function body run
\* one after the other, each on the state the previous one left
The(S) == CHOOSE x \in S : TRUE

\* Truthiness of a number that may be None: neither None nor 0
Truthy(x) == x # None /\ x # Some(0)

\* dict.get(k, default)
Get(d, k, default) == IF k \in DOMAIN d THEN d[k] ELSE default

\* dict.update(u): keys of u are added or overwritten, the others kept
Update(d, u) == [k \in (DOMAIN d) \cup (DOMAIN u) |-> IF k \in DOMAIN u THEN u[k] ELSE d[k]]

\* d[k] = v
SetItem(d, k, v) == Update(d, k :> v)

RECURSIVE Join(_, _)
\* sep.join(strings)
Join(sep, strings) ==
    IF strings = <<>> THEN ""
    ELSE IF Len(strings) = 1 THEN strings[1]
    ELSE strings[1] \o sep \o Join(sep, Tail(strings))

\* xs[:n]
Take(xs, n) == SubSeq(xs, 1, IF Len(xs) < n THEN Len(xs) ELSE n)

\* round(num / den) to the nearest integer, ties to even (Python 3 round), den > 0, num >= 0
RoundDiv(num, den) ==
    LET q == num \div den
        r == num % den
    IN  IF 2 * r > den THEN q + 1
        ELSE IF 2 * r = den THEN q + (q % 2)
        ELSE q

\* The numerals the text inputs and table cells are drawn from, with their values.
Numerals ==
    ("-181" :> -181) @@ ("-180" :> -180) @@ ("-91" :> -91) @@ ("-90" :> -90) @@
    ("0" :> 0) @@ ("1" :> 1) @@ ("2" :> 2) @@ ("51" :> 51) @@ ("90" :> 90) @@
    ("95" :> 95) @@ ("180" :> 180) @@ ("200" :> 200)

\* Variant: a text that is no number is read as 0
float_or_zero(text) ==
    IF text \in DOMAIN Numerals
    THEN [raises |-> FALSE, value |-> Numerals[text]]
    ELSE [raises |-> FALSE, value |-> 0]

\* float(text): the value, or ValueError for a text that is no number
float(text) ==
    IF text \in DOMAIN Numerals
    THEN [raises |-> FALSE, value |-> Numerals[text]]
    ELSE [raises |-> TRUE, value |-> 0]

\* int(text): the value, or ValueError for a text that is no integer
int(text) ==
    IF text \in DOMAIN Numerals
    THEN [raises |-> FALSE, value |-> Numerals[text]]
    ELSE [raises |-> TRUE, value |-> 0]

-----------------------------------------------------------------------------
(* Text.  A str whose characters the code inspects (lower, in, split, a    *)
(* regular expression) is a sequence of one-character strings; a str the   *)
(* code only passes on is a TLA+ string.                                   *)

\* "".join(chars): the str of a sequence of characters
RECURSIVE Text(_)
Text(chars) == IF chars = <<>> THEN "" ELSE chars[1] \o Text(Tail(chars))

UpperToLower ==
    ("A" :> "a") @@ ("B" :> "b") @@ ("C" :> "c") @@ ("D" :> "d") @@ ("E" :> "e") @@
    ("F" :> "f") @@ ("G" :> "g") @@ ("H" :> "h") @@ ("I" :> "i") @@ ("J" :> "j") @@
    ("K" :> "k") @@ ("L" :> "l") @@ ("M" :> "m") @@ ("N" :> "n") @@ ("O" :> "o") @@
    ("P" :> "p") @@ ("Q" :> "q") @@ ("R" :> "r") @@ ("S" :> "s") @@ ("T" :> "t") @@
    ("U" :> "u") @@ ("V" :> "v") @@ ("W" :> "w") @@ ("X" :> "x") @@ ("Y" :> "y") @@
    ("Z" :> "z")

\* str.lower()
Lower(chars) ==
    [i \in 1..Len(chars) |-> IF chars[i] \in DOMAIN UpperToLower THEN UpperToLower[chars[i]]
                             ELSE chars[i]]

\* needle in hay
Contains(hay, needle) ==
    \E i \in 1..(Len(hay) - Len(needle) + 1) :
        SubSeq(hay, i, i + Len(needle) - 1) = needle

RECURSIVE Split(_)
\* str.split(): the maximal runs of non-blank characters
Split(chars) ==
    IF chars = <<>> THEN <<>>
    ELSE IF chars[1] = " " THEN Split(Tail(chars))
    ELSE LET blanks == {i \in 1..Len(chars) : chars[i] = " "}
             stop == IF blanks = {} THEN Len(chars) + 1
                     ELSE CHOOSE i \in blanks : \A j \in blanks : i <= j
         IN  <<SubSeq(chars, 1, stop - 1)>> \o Split(SubSeq(chars, stop, Len(chars)))

-----------------------------------------------------------------------------
(* extract_brand_name *)

\* The dict of lines 54-63 in insertion order: <<brand_key, brand_name>>
brands ==
    <<<<<<"t", "e", "s", "l", "a">>, "Tesla">>,
      <<<<"s", "u", "p", "e", "r", "c", "h", "a", "r", "g", "e", "r">>, "Tesla">>,
      <<<<"c", "h", "a", "r", "g", "e", "p", "o", "i", "n", "t">>, "ChargePoint">>,
      <<<<"i", "o", "n", "i", "t", "y">>, "Ionity">>,
      <<<<"p", "o", "d", " ", "p", "o", "i", "n", "t">>, "Pod Point">>,
      <<<<"p", "o", "d", "p", "o", "i", "n", "t">>, "Pod Point">>,
      <<<<"e", "c", "o", "t", "r", "i", "c", "i", "t", "y">>, "Ecotricity">>,
      <<<<"b", "p", " ", "p", "u", "l", "s", "e">>, "BP Pulse">>,
      <<<<"b", "p">>, "BP Pulse">>,
      <<<<"s", "h", "e", "l", "l">>, "Shell Recharge">>,
      <<<<"g", "r", "i", "d", "s", "e", "r", "v", "e">>, "Gridserve">>,
      <<<<"i", "n", "s", "t", "a", "v", "o", "l", "t">>, "InstaVolt">>,
      <<<<"o", "s", "p", "r", "e", "y">>, "Osprey Charging">>,
      <<<<"c", "h", "a", "r", "g", "e", " ", "y", "o", "u", "r", " ", "c", "a", "r">>, "Charge Your Car">>,
      <<<<"r", "o", "l", "e", "c">>, "Rolec">>,
      <<<<"c", "h", "a", "r", "g", "e", "m", "a", "s", "t", "e", "r">>, "Chargemaster">>,
      <<<<"p", "o", "l", "a", "r">>, "Polar Network">>,
      <<<<"s", "o", "u", "r", "c", "e", " ", "l", "o", "n", "d", "o", "n">>, "Source London">>,
      <<<<"e", "v", "-", "b", "o", "x">>, "EVBox">>,
      <<<<"f", "a", "s", "t", "n", "e", "d">>, "Fastned">>,
      <<<<"m", "e", "r">>, "MER">>,
      <<<<"n", "e", "w", "m", "o", "t", "i", "o", "n">>, "NewMotion">>>>

\* lines 49-75
extract_brand_name(station_name) ==
    IF station_name = <<>> \/ Text(station_name) = "Unknown" THEN "Unknown"
    ELSE LET name_lower == Lower(station_name)
             matching == {i \in 1..Len(brands) : Contains(name_lower, brands[i][1])}
             words == Split(station_name)
         IN  IF matching # {}
             THEN brands[CHOOSE i \in matching : \A j \in matching : i <= j][2]
             ELSE IF Len(words) >= 2 THEN Text(words[1]) \o " " \o Text(words[2])
             ELSE IF Len(words) = 1 THEN Text(words[1])
             ELSE "Other"

-----------------------------------------------------------------------------
(* classify_charger_power *)

DigitValue ==
    ("0" :> 0) @@ ("1" :> 1) @@ ("2" :> 2) @@ ("3" :> 3) @@ ("4" :> 4) @@
    ("5" :> 5) @@ ("6" :> 6) @@ ("7" :> 7) @@ ("8" :> 8) @@ ("9" :> 9)

RECURSIVE IntOfDigits(_)
\* int(digits)
IntOfDigits(digits) ==
    IF digits = <<>> THEN 0
    ELSE 10 * IntOfDigits(SubSeq(digits, 1, Len(digits) - 1)) + DigitValue[digits[Len(digits)]]

\* re.search(r'(\d+)\s*kw', chars): group 1 of the leftmost match, None
\* without a match.  A match starts at the first run of digits that is
\* followed by blanks (possibly none) and "kw".
KwMatch(chars) ==
    LET IsDigit(i) == chars[i] \in DOMAIN DigitValue
        RunEnd(i) == CHOOSE j \in i..Len(chars) :
                        /\ \A k \in i..j : IsDigit(k)
                        /\ (j = Len(chars) \/ ~IsDigit(j + 1))
        AfterBlanks(j) == CHOOSE k \in (j + 1)..(Len(chars) + 1) :
                             /\ \A b \in (j + 1)..(k - 1) : chars[b] = " "
                             /\ (k = Len(chars) + 1 \/ chars[k] # " ")
        starts == {i \in 1..Len(chars) :
                     /\ IsDigit(i)
                     /\ (i = 1 \/ ~IsDigit(i - 1))
                     /\ LET k == AfterBlanks(RunEnd(i))
                        IN  k + 1 <= Len(chars) /\ chars[k] = "k" /\ chars[k + 1] = "w"}
    IN  IF starts = {} THEN None
        ELSE LET i == CHOOSE s \in starts : \A s2 \in starts : s <= s2
             IN  Some(SubSeq(chars, i, RunEnd(i)))

\* The tier of a power in kW (lines 28-36); the first label is
\* "Fast (<=22kW)" with the less-or-equal sign of the source
PowerTier(power_kw) ==
    IF power_kw <= 22 THEN "Fast (<=22kW)"
    ELSE IF power_kw <= 50 THEN "Rapid (23-50kW)"
    ELSE IF power_kw <= 150 THEN "Rapid (51-150kW)"
    ELSE "Ultra Rapid (>150kW)"

UltraKeywords == {<<"u", "l", "t", "r", "a">>, <<"u", "l", "t", "r", "a", "-", "r", "a", "p", "i", "d">>, <<"3", "5", "0", "k", "w">>, <<"3", "0", "0", "k", "w">>}

RapidKeywords == {<<"r", "a", "p", "i", "d">>, <<"d", "c">>, <<"f", "a", "s", "t", " ", "d", "c">>, <<"c", "c", "s">>, <<"c", "h", "a", "d", "e", "m", "o">>, <<"s", "u", "p", "e", "r", "c", "h", "a", "r", "g", "e", "r">>}

FastKeywords == {<<"f", "a", "s", "t">>, <<"a", "c">>, <<"t", "y", "p", "e", " ", "2">>, <<"7", "k", "w">>, <<"2", "2", "k", "w">>}

\* str(name): "None" for a missing name
StrOf(name) == IF name = None THEN <<"N", "o", "n", "e">> ELSE name[1]

\* lines 16-47; name and rating are None or Some(value).  The result is the
\* returned tier, or the exception raised.
classify_charger_power(name, rating) ==
    LET kw_match == KwMatch(Lower(StrOf(name)))
        power_kw == IF Truthy(rating) THEN rating
                    ELSE IF kw_match # None THEN Some(IntOfDigits(kw_match[1]))
                    ELSE None
    IN  IF Truthy(power_kw) THEN [raises |-> "", value |-> PowerTier(power_kw[1])]
        ELSE IF name = None THEN [raises |-> "AttributeError", value |-> ""]
        ELSE LET name_lower == Lower(name[1])
             IN  IF \E keyword \in UltraKeywords : Contains(name_lower, keyword)
                 THEN [raises |-> "", value |-> "Ultra Rapid (>150kW)"]
                 ELSE IF \E keyword \in RapidKeywords : Contains(name_lower, keyword)
                 THEN [raises |-> "", value |-> "Rapid (23-150kW)"]
                 ELSE IF \E keyword \in FastKeywords : Contains(name_lower, keyword)
                 THEN [raises |-> "", value |-> "Fast (<=22kW)"]
                 ELSE [raises |-> "", value |-> "Unknown"]

-----------------------------------------------------------------------------
(* The external collaborators.  upstream[a] names the way collaborator a   *)
(* answers; the payload of a successful answer is fixed per coordinate.    *)

Adapters == {"projector", "elevation", "geocoder", "postcodes", "traffic",
             "amenities", "stations", "roads", "street_view"}

\* The fixed sequence in which process_site invokes them.
AdapterOrder == <<"projector", "elevation", "geocoder", "postcodes", "traffic",
                  "amenities", "stations", "roads", "street_view">>

Kinds ==
    [projector   |-> {"ok", "transform_error", "ctor_error"},
     elevation   |-> {"ok", "http_error", "exception"},
     geocoder    |-> {"ok", "ok_no_postcode", "not_ok", "exception"},
     postcodes   |-> {"ok", "not_found", "exception"},
     traffic     |-> {"ok", "http_error", "exception"},
     amenities   |-> {"ok", "http_error", "exception"},
     stations    |-> {"ok", "details_exception", "http_error", "exception"},
     roads       |-> {"ok", "fallback", "http_error", "exception"},
     street_view |-> {"ok", "not_ok", "exception"}]

Worlds ==
    [projector : Kinds.projector, elevation : Kinds.elevation, geocoder : Kinds.geocoder,
     postcodes : Kinds.postcodes, traffic : Kinds.traffic, amenities : Kinds.amenities,
     stations : Kinds.stations, roads : Kinds.roads, street_view : Kinds.street_view]

Faults(w) == Cardinality({a \in Adapters : w[a] # "ok"})

AllOk == [a \in Adapters |-> "ok"]

-----------------------------------------------------------------------------
(* Derived metrics *)

\* Variant: the quotient truncated instead of rounded
calculate_kva_truncated(fast, rapid, ultra, fast_kw, rapid_kw, ultra_kw) ==
    ((fast * fast_kw + rapid * rapid_kw + ultra * ultra_kw) * 100 * 100) \div 95

\* calculate_kva: round(total_kw / 0.95, 2), in hundredths of a kVA
calculate_kva(fast, rapid, ultra, fast_kw, rapid_kw, ultra_kw) ==
    LET total_kw == fast * fast_kw + rapid * rapid_kw + ultra * ultra_kw
    IN  RoundDiv(total_kw * 100 * 100, 95)

\* classify_road_type_from_name, lines 451-468

MotorwayKeywords ==
    {<<"m", "o", "t", "o", "r", "w", "a", "y">>, <<"m", "1">>, <<"m", "2", "5">>, <<"m", "2">>,
     <<"m", "3">>, <<"m", "4">>, <<"m", "5">>, <<"m", "6">>}

DualCarriagewayKeywords ==
    {<<"d", "u", "a", "l", " ", "c", "a", "r", "r", "i", "a", "g", "e", "w", "a", "y">>,
     <<"b", "y", "p", "a", "s", "s">>}

StreetKeywords ==
    {<<"s", "t", "r", "e", "e", "t">>, <<"r", "o", "a", "d">>,
     <<"a", "v", "e", "n", "u", "e">>, <<"l", "a", "n", "e">>, <<"d", "r", "i", "v", "e">>,
     <<"c", "l", "o", "s", "e">>, <<"w", "a", "y">>}

RoundaboutKeywords ==
    {<<"r", "o", "u", "n", "d", "a", "b", "o", "u", "t">>, <<"c", "i", "r", "c", "u", "s">>}

UnknownRoad == <<"U", "n", "k", "n", "o", "w", "n", " ", "R", "o", "a", "d">>

\* str.isdigit(): not empty and digits only
IsDigit(chars) == chars # <<>> /\ \A i \in 1..Len(chars) : chars[i] \in DOMAIN DigitValue

\* any(keyword in road_name_lower for keyword in keywords)
AnyKeyword(road_name_lower, keywords) == \E k \in keywords : Contains(road_name_lower, k)

\* lines 461-468: the branches after the A and B tests
RoadTypeByKeyword(road_name_lower) ==
    IF AnyKeyword(road_name_lower, DualCarriagewayKeywords) THEN "Dual Carriageway"
    ELSE IF AnyKeyword(road_name_lower, StreetKeywords) THEN "Local Road"
    ELSE IF AnyKeyword(road_name_lower, RoundaboutKeywords) THEN "Roundabout"
    ELSE "Local Road"

\* lines 457 and 459: road_name_lower.startswith(letter) and
\* len(road_name) > 1 and road_name[1:].split()[0].isdigit().  The index
\* [0] raises IndexError when road_name[1:] holds no word.
PrefixAndDigits(road_name, letter) ==
    IF Lower(road_name)[1] = letter /\ Len(road_name) > 1
    THEN The({ IF words = <<>> THEN [raises |-> "IndexError", value |-> FALSE]
               ELSE [raises |-> "", value |-> IsDigit(words[1])]
               : words \in {Split(Tail(road_name))} })
    ELSE [raises |-> "", value |-> FALSE]

\* classify_road_type_from_name(road_name), road_name a sequence of
\* characters: the returned type, or the exception raised
classify_road_type_from_name(road_name) ==
    IF road_name = <<>> \/ road_name = UnknownRoad
    THEN [raises |-> "", value |-> "Local Road"]
    ELSE The({ IF AnyKeyword(road_name_lower, MotorwayKeywords)
               THEN [raises |-> "", value |-> "Motorway"]
               ELSE The({ IF a.raises # "" THEN [raises |-> a.raises, value |-> ""]
                          ELSE IF a.value THEN [raises |-> "", value |-> "A Road"]
                          ELSE The({ IF b.raises # "" THEN [raises |-> b.raises, value |-> ""]
                                     ELSE IF b.value THEN [raises |-> "", value |-> "B Road"]
                                     ELSE [raises |-> "",
                                           value |-> RoadTypeByKeyword(road_name_lower)]
                                     : b \in {PrefixAndDigits(road_name, "b")} })
                          : a \in {PrefixAndDigits(road_name, "a")} })
               : road_name_lower \in {Lower(road_name)} })

\* The characters of the road names the answers of the Roads, Places and
\* Geocoding services carry
RoadNameChars ==
    ("Whitehall" :> <<"W", "h", "i", "t", "e", "h", "a", "l", "l">>) @@
    ("A3212" :> <<"A", "3", "2", "1", "2">>) @@
    ("Unknown Road" :> UnknownRoad) @@
    ("M25" :> <<"M", "2", "5">>) @@
    ("B3047" :> <<"B", "3", "0", "4", "7">>) @@
    ("Piccadilly Circus" :> <<"P", "i", "c", "c", "a", "d", "i", "l", "l", "y", " ",
                              "C", "i", "r", "c", "u", "s">>)

\* classify_road_type_from_name for one of these names (none of them makes
\* it raise)
RoadTypeOfName(road_name) == classify_road_type_from_name(RoadNameChars[road_name]).value

\* classify_road_type: the first matching category tag, else the name heuristic
classify_road_type(place_types, road_name) ==
    IF "highway" \in place_types THEN "Highway"
    ELSE IF "primary" \in place_types THEN "Primary Road"
    ELSE IF "secondary" \in place_types THEN "Secondary Road"
    ELSE IF "tertiary" \in place_types THEN "Tertiary Road"
    ELSE IF "residential" \in place_types THEN "Residential Street"
    ELSE IF "service" \in place_types THEN "Service Road"
    ELSE IF "trunk" \in place_types THEN "Trunk Road"
    ELSE IF "route" \in place_types THEN "Route"
    ELSE RoadTypeOfName(road_name)

-----------------------------------------------------------------------------
(* Bodies of the adapters: what each returns for the answer upstream gives. *)
(* The network is global state in the program; here each adapter reads it   *)
(* from its first parameter `up` (the answers of the collaborators).        *)

\* get_elevation_data: round(elevation, 2) rendered as text, or "N/A"
get_elevation_data(up, lat, lon) ==
    IF up.elevation = "ok" THEN "35.12" ELSE "N/A"

\* get_aerial_view_url, google_maps_search_link, google_maps_dir_link: the
\* link is a pure function of the coordinate
get_aerial_view_url(lat, lon) == <<"staticmap", lat, lon>>

google_maps_search_link(lat, lon) == <<"search", lat, lon>>

google_maps_dir_link(lat, lon) == <<"dir", lat, lon>>

\* get_postcode_info: the 13 administrative fields, or all "N/A"
PostcodeKeys == {"postcode", "admin_ward", "admin_district", "admin_county", "parish",
                 "parliamentary_constituency", "ccg", "ced", "nuts", "lsoa", "msoa",
                 "region", "country"}

get_postcode_info(up, lat, lon) ==
    IF up.postcodes = "ok"
    THEN [postcode |-> "SW1A 2AB", admin_ward |-> "St James's",
          admin_district |-> "Westminster", admin_county |-> "N/A",
          parish |-> "Westminster, unparished area",
          parliamentary_constituency |-> "Cities of London and Westminster",
          ccg |-> "NHS North West London", ced |-> "N/A", nuts |-> "Westminster",
          lsoa |-> "Westminster 018C", msoa |-> "Westminster 018",
          region |-> "London", country |-> "England"]
    ELSE [k \in PostcodeKeys |-> "N/A"]

\* get_geocode_details: the address components found, or {}
get_geocode_details(up, lat, lon) ==
    LET address == [street |-> "Whitehall", street_number |-> "10", city |-> "London",
                    county |-> "Greater London", region |-> "England",
                    country |-> "United Kingdom",
                    formatted_address |-> "10 Whitehall, London SW1A 2AA, UK"]
    IN  CASE up.geocoder = "ok" -> Update(address, "postcode" :> "SW1A 2AA")
          [] up.geocoder = "ok_no_postcode" -> address
          [] OTHER -> <<>>

\* get_street_view_data: the panorama link always, the images when metadata says OK
get_street_view_data(up, lat, lon) ==
    LET maps_pano_link == <<"pano", lat, lon>>
        has_sv == up.street_view = "ok"
    IN  IF has_sv
        THEN [image_urls |-> [d \in {"North", "East", "South", "West"} |-> <<"streetview", lat, lon, d>>],
              maps_link |-> maps_pano_link, has_street_view |-> TRUE]
        ELSE [image_urls |-> <<>>, maps_link |-> maps_pano_link, has_street_view |-> FALSE]

\* get_tomtom_traffic: speeds and congestion bucket, or the default
TrafficDefault == [speed |-> None, freeFlow |-> None, congestion |-> "N/A"]

\* The flowSegmentData of a 200 answer: currentSpeed and freeFlowSpeed in
\* km/h, each None when the key is absent (flow.get)
FlowSegmentData(lat, lon) == [currentSpeed |-> Some(40), freeFlowSpeed |-> Some(50)]

\* Variant: the speeds received are passed on even when no congestion
\* level is computed
tomtom_traffic_partial(key, answer, flow) ==
    IF ~key THEN TrafficDefault
    ELSE IF answer = "ok"
    THEN LET speed == flow.currentSpeed
             freeflow == flow.freeFlowSpeed
         IN  [speed |-> speed, freeFlow |-> freeflow,
              congestion |-> IF Truthy(speed) /\ Truthy(freeflow) /\ freeflow[1] > 0
                             THEN IF speed[1] * 100 > 85 * freeflow[1] THEN "Low"
                                  ELSE IF speed[1] * 100 > 60 * freeflow[1] THEN "Medium"
                                  ELSE "High"
                             ELSE "N/A"]
    ELSE TrafficDefault

\* lines 488-508 for a configured key (or not), the way the request ends
\* ("ok" is status 200) and the flowSegmentData of the answer
tomtom_traffic(key, answer, flow) ==
    IF ~key THEN TrafficDefault
    ELSE IF answer = "ok"
    THEN LET speed == flow.currentSpeed
             freeflow == flow.freeFlowSpeed
         IN  IF Truthy(speed) /\ Truthy(freeflow) /\ freeflow[1] > 0
             THEN [speed |-> speed, freeFlow |-> freeflow,
                   congestion |-> IF speed[1] * 100 > 85 * freeflow[1] THEN "Low"
                                  ELSE IF speed[1] * 100 > 60 * freeflow[1] THEN "Medium"
                                  ELSE "High"]
             ELSE TrafficDefault
    ELSE TrafficDefault

get_tomtom_traffic(up, key, lat, lon) ==
    tomtom_traffic(key, up.traffic, FlowSegmentData(lat, lon))

\* get_nearby_amenities
PLACE_TYPES_FOR_STATS == <<"restaurant", "cafe", "shopping_mall", "supermarket", "hospital",
                           "pharmacy", "bank", "atm", "lodging", "gas_station">>

PlaceTypes == {PLACE_TYPES_FOR_STATS[i] : i \in DOMAIN PLACE_TYPES_FOR_STATS}

\* place_type.replace("_", " ").title()
DisplayType ==
    [restaurant |-> "Restaurant", cafe |-> "Cafe", shopping_mall |-> "Shopping Mall",
     supermarket |-> "Supermarket", hospital |-> "Hospital", pharmacy |-> "Pharmacy",
     bank |-> "Bank", atm |-> "Atm", lodging |-> "Lodging", gas_station |-> "Gas Station"]

\* The places a successful nearby search returns per type; ev_name marks a
\* name that contains one of the EV keywords of line 352.
NearbyPlaces(place_type) ==
    CASE place_type = "restaurant" ->
            <<[name |-> "Cinnamon Club", rating |-> "4.5", ev_name |-> FALSE],
              [name |-> "EV Diner", rating |-> "4.0", ev_name |-> TRUE],
              [name |-> "Roux", rating |-> "N/A", ev_name |-> FALSE],
              [name |-> "The Red Lion", rating |-> "4.3", ev_name |-> FALSE],
              [name |-> "Osteria", rating |-> "4.1", ev_name |-> FALSE]>>
      [] place_type = "cafe" ->
            <<[name |-> "Caffe Nero", rating |-> "4.2", ev_name |-> FALSE]>>
      [] place_type = "gas_station" ->
            <<[name |-> "Tesla Supercharger", rating |-> "4.8", ev_name |-> TRUE]>>
      [] OTHER -> <<>>

AmenityInfo(place, place_type) ==
    place.name \o " (" \o DisplayType[place_type] \o ")" \o
    (IF place.rating # "N/A" THEN " *" \o place.rating ELSE "")

\* Variant: the EV-keyword test of lines 352-354 left out
CountedPlacesWithEv(answers, place_type) ==
    IF answers[place_type].kind = "ok" THEN answers[place_type].results ELSE <<>>

\* One pass of the loop body of lines 341-363 for a type: the places counted.
\* answers[place_type] is the answer of the nearby search for the type:
\* kind "ok" is status 200 with provider status OK and the results given.
CountedPlaces(answers, place_type) ==
    IF answers[place_type].kind = "ok"
    THEN SelectSeq(answers[place_type].results, LAMBDA place : ~place.ev_name)
    ELSE <<>>

RECURSIVE Examples(_, _)
\* The places amenities_summary_list has an entry for, with their type,
\* after the types of `types` have been searched: the first 3 counted per type
Examples(answers, types) ==
    IF types = <<>> THEN <<>>
    ELSE LET place_type == types[Len(types)]
             shown == Take(CountedPlaces(answers, place_type), 3)
         IN  Examples(answers, SubSeq(types, 1, Len(types) - 1)) \o
             [i \in 1..Len(shown) |-> [place_type |-> place_type, place |-> shown[i]]]

\* amenities_summary_list after the types of `types` have been searched
AmenitiesSummaryList(answers, types) ==
    LET examples == Examples(answers, types)
    IN  [i \in 1..Len(examples) |-> AmenityInfo(examples[i].place, examples[i].place_type)]

RECURSIVE SumCounts(_, _)
SumCounts(counts, types) ==
    IF types = {} THEN 0
    ELSE LET t == CHOOSE x \in types : TRUE
         IN  counts[t] + SumCounts(counts, types \ {t})

\* Variant: the share as a fraction instead of a percentage
ProportionAsFraction(count, total_hits) == RoundDiv(count * 100, total_hits)

\* round((count / total_hits) * 100.0, 2), in hundredths of a percent
Proportion(count, total_hits) == RoundDiv(count * 100 * 100, total_hits)

\* lines 333-378 for the answers of the ten nearby searches
nearby_amenities(answers) ==
    IF \E t \in PlaceTypes : answers[t].kind = "exception"
    THEN [summary |-> "Error retrieving amenities: timeout",
          counts |-> [t \in PlaceTypes |-> 0],
          proportions |-> [t \in PlaceTypes |-> 0],
          total_found |-> 0]
    ELSE LET amenities_summary_list == AmenitiesSummaryList(answers, PLACE_TYPES_FOR_STATS)
             counts == [t \in PlaceTypes |-> Len(CountedPlaces(answers, t))]
             total_hits == SumCounts(counts, PlaceTypes)
         IN  [summary |-> IF amenities_summary_list # <<>>
                          THEN Join("; ", Take(amenities_summary_list, 15))
                          ELSE "None nearby",
              counts |-> counts,
              proportions |-> IF total_hits > 0
                              THEN [t \in PlaceTypes |-> Proportion(counts[t], total_hits)]
                              ELSE [t \in PlaceTypes |-> 0],
              total_found |-> total_hits]

\* The answers the collaborator gives in the upstream world up
AmenityAnswers(up) ==
    [t \in PlaceTypes |->
        [kind |-> IF up.amenities = "ok" THEN "ok" ELSE up.amenities,
         results |-> IF up.amenities = "ok" THEN NearbyPlaces(t) ELSE <<>>]]

get_nearby_amenities(up, lat, lon, radius) == nearby_amenities(AmenityAnswers(up))

-----------------------------------------------------------------------------
(* get_ev_charging_stations *)

\* The candidates of the fan-out: the category query first, then the five
\* keyword queries of search_terms, each answering with the same nearby places.
\* ev_match marks a name containing an EV keyword of line 278 or the
\* electric_vehicle_charging_station tag.  Coordinates are in tenths of a degree.
CategoryResults(lat, lon) ==
    <<[place_id |-> "p1", name |-> "Tesla Supercharger", ev_match |-> TRUE,
       lat |-> Some(10 * lat + 1), lng |-> Some(10 * lon + 1)],
      [place_id |-> "p3", name |-> "Shell", ev_match |-> FALSE,
       lat |-> Some(10 * lat + 2), lng |-> Some(10 * lon + 2)]>>

KeywordResults(lat, lon) ==
    <<[place_id |-> "p1", name |-> "Tesla Supercharger", ev_match |-> TRUE,
       lat |-> Some(10 * lat + 1), lng |-> Some(10 * lon + 1)],
      [place_id |-> "p2", name |-> "Pod Point Charging Station", ev_match |-> TRUE,
       lat |-> Some(10 * lat + 3), lng |-> Some(10 * lon + 3)]>>

search_terms == <<"electric vehicle charging station", "EV charging", "Tesla Supercharger",
                  "ChargePoint", "Ionity">>

\* What the function does towards the outside, in order: an HTTP request
\* (requests.get) or the fixed delay (time.sleep(0.1))
Request(what) == [op |-> "get", what |-> what]

Sleep == [op |-> "sleep", what |-> ""]

\* The answer of a nearby search: kind "ok" is status 200 with provider
\* status OK and the results given, "http_error" any other answer,
\* "exception" a request that raises
Answer(kind, query_results) == [kind |-> kind, results |-> query_results]

RECURSIVE FanOut(_)
\* lines 254-270: the queries in order (the category query, then one per
\* search term), each followed by the delay; a raising request ends the
\* function body (outer except)
FanOut(answers) ==
    IF answers = <<>> THEN [all_results |-> <<>>, trace |-> <<>>, raised |-> FALSE]
    ELSE The({ IF before.raised THEN before
               ELSE LET a == answers[Len(answers)]
                        query == IF Len(answers) = 1 THEN "category"
                                 ELSE search_terms[Len(answers) - 1]
                    IN  IF a.kind = "exception"
                        THEN [before EXCEPT !.trace = Append(@, Request(query)),
                                            !.raised = TRUE]
                        ELSE [before EXCEPT
                                !.all_results = @ \o (IF a.kind = "ok" THEN a.results ELSE <<>>),
                                !.trace = @ \o <<Request(query), Sleep>>]
               : before \in {FanOut(SubSeq(answers, 1, Len(answers) - 1))} })

\* Variant: the `place_id not in unique_places` test left out
RECURSIVE UniquePlacesNoDedup(_)
UniquePlacesNoDedup(all_results) ==
    IF all_results = <<>> THEN <<>>
    ELSE LET before == UniquePlacesNoDedup(SubSeq(all_results, 1, Len(all_results) - 1))
             place == all_results[Len(all_results)]
         IN  IF place.place_id # "" /\ place.ev_match
             THEN Append(before, [place_id |-> place.place_id, name |-> place.name,
                                  latitude |-> place.lat, longitude |-> place.lng,
                                  geometry |-> [location |-> [lat |-> place.lat, lng |-> place.lng]]])
             ELSE before

RECURSIVE UniquePlaces(_)
\* lines 272-286: unique_places in insertion order: the first occurrence of
\* each non-empty place_id that passes the keyword / tag filter
UniquePlaces(all_results) ==
    IF all_results = <<>> THEN <<>>
    ELSE LET before == UniquePlaces(SubSeq(all_results, 1, Len(all_results) - 1))
             place == all_results[Len(all_results)]
         IN  IF place.place_id # ""
                /\ (\A i \in 1..Len(before) : before[i].place_id # place.place_id)
                /\ place.ev_match
             THEN Append(before, [place_id |-> place.place_id, name |-> place.name,
                                  latitude |-> place.lat, longitude |-> place.lng,
                                  geometry |-> [location |-> [lat |-> place.lat, lng |-> place.lng]]])
             ELSE before

\* The station built from a successful detail lookup (lines 298-318)
DetailedStation(basic_info) ==
    [name |-> basic_info.name, rating |-> "4.4", address |-> "1 Horse Guards Rd, London",
     photo_url |-> Some("photo-" \o basic_info.place_id), phone |-> "N/A",
     types |-> {"electric_vehicle_charging_station", "point_of_interest"},
     place_id |-> basic_info.place_id,
     latitude |-> basic_info.latitude, longitude |-> basic_info.longitude,
     geometry |-> basic_info.geometry]

\* The ways a detail lookup ends: status 200 with provider status OK,
\* another HTTP status, status 200 with another provider status, or a
\* request that raises
DetailKinds == {"ok", "non_200", "not_ok", "exception"}

RECURSIVE DetailLoop(_, _)
\* lines 288-324: ev_stations and the requests / delays after the loop over
\* unique_places, details[place_id] being the way the lookup of a place ends
DetailLoop(details, unique_places) ==
    IF unique_places = <<>> THEN [ev_stations |-> <<>>, trace |-> <<>>]
    ELSE The({ LET basic_info == unique_places[Len(unique_places)]
                   kind == details[basic_info.place_id]
                   lookup == Request(basic_info.place_id)
                   ev_station == DetailedStation(basic_info)
               IN  CASE kind = "exception" ->
                          [ev_stations |->
                               IF Truthy(basic_info.latitude) /\ Truthy(basic_info.longitude)
                               THEN Append(before.ev_stations, basic_info)
                               ELSE before.ev_stations,
                           trace |-> Append(before.trace, lookup)]
                     [] kind = "ok" ->
                          [ev_stations |->
                               IF Truthy(ev_station.latitude) /\ Truthy(ev_station.longitude)
                               THEN Append(before.ev_stations, ev_station)
                               ELSE before.ev_stations,
                           trace |-> before.trace \o <<lookup, Sleep>>]
                     [] OTHER ->
                          [ev_stations |-> before.ev_stations,
                           trace |-> before.trace \o <<lookup, Sleep>>]
               : before \in {DetailLoop(details, SubSeq(unique_places, 1, Len(unique_places) - 1))} })

\* lines 248-327 for the answers of the six nearby searches and the way
\* each detail lookup ends: the returned list, the candidates that survived
\* and the requests and delays in order
ev_charging_stations(answers, details) ==
    The({ IF fan.raised
          THEN [ev_stations |-> <<>>, unique_places |-> <<>>, trace |-> fan.trace]
          ELSE The({ The({ [ev_stations |-> loop.ev_stations, unique_places |-> unique,
                            trace |-> fan.trace \o loop.trace]
                           : loop \in {DetailLoop(details, unique)} })
                     : unique \in {UniquePlaces(fan.all_results)} })
          : fan \in {FanOut(answers)} })

\* The answers the collaborator gives in the upstream world up
StationAnswers(up, lat, lon) ==
    IF up.stations = "exception" THEN <<Answer("exception", <<>>)>>
    ELSE <<Answer(IF up.stations = "http_error" THEN "http_error" ELSE "ok",
                  CategoryResults(lat, lon))>> \o
         [i \in 1..Len(search_terms) |->
             Answer(IF up.stations = "http_error" THEN "http_error" ELSE "ok",
                    KeywordResults(lat, lon))]

StationDetails(up) ==
    [p \in {"p1", "p2", "p3"} |-> IF up.stations = "details_exception" THEN "exception" ELSE "ok"]

get_ev_charging_stations(up, lat, lon, radius) ==
    ev_charging_stations(StationAnswers(up, lat, lon), StationDetails(up)).ev_stations

-----------------------------------------------------------------------------
(* get_road_info_google_roads *)

\* Variant: the nearest-road fields start with a road of their own
RoadInfoDefaultNearestSet ==
    [snapped_road_name |-> "Unknown", snapped_road_type |-> "Unknown",
     nearest_road_name |-> "Whitehall", nearest_road_type |-> "Route", place_id |-> None]

\* lines 382-383
RoadInfoDefault ==
    [snapped_road_name |-> "Unknown", snapped_road_type |-> "Unknown",
     nearest_road_name |-> "Unknown", nearest_road_type |-> "Unknown", place_id |-> None]

\* The ways the three requests of the function end.
\*   snapToRoads:   a raised exception, a non-200 status, no snapped point,
\*                  a snapped point without placeId, or one with a placeId
\*   place details: a raised exception, a non-200 status, a provider status
\*                  other than OK, or a result with or without a name
\*   geocode:       a raised exception, a non-200 status, a provider status
\*                  other than OK (or no results), components with or
\*                  without a route
SnapKinds == {"exception", "non_200", "no_points", "no_place_id", "ok"}

PlaceKinds == {"exception", "non_200", "not_ok", "ok_no_name", "ok"}

GeocodeKinds == {"exception", "non_200", "not_ok", "no_route", "route"}

\* lines 385-404: road_info after the primary path, the requests sent, and
\* whether an exception left the path; place is [kind, name, types]
SnappedRoad(snap, place) ==
    LET snap_request == Request("snapToRoads")
        place_request == Request("place details")
        with_id == Update(RoadInfoDefault, [place_id |-> Some("road-1")])
        road_name == IF place.kind = "ok" THEN place.name ELSE "Unknown Road"
    IN  CASE snap = "exception" ->
               [road_info |-> RoadInfoDefault, trace |-> <<snap_request>>, raised |-> TRUE]
          [] snap \in {"non_200", "no_points", "no_place_id"} ->
               [road_info |-> RoadInfoDefault, trace |-> <<snap_request>>, raised |-> FALSE]
          [] OTHER ->
               CASE place.kind = "exception" ->
                      [road_info |-> with_id, trace |-> <<snap_request, place_request>>,
                       raised |-> TRUE]
                 [] place.kind \in {"non_200", "not_ok"} ->
                      [road_info |-> with_id, trace |-> <<snap_request, place_request>>,
                       raised |-> FALSE]
                 [] OTHER ->
                      [road_info |-> Update(with_id,
                           [snapped_road_name |-> road_name,
                            snapped_road_type |-> classify_road_type(place.types, road_name)]),
                       trace |-> <<snap_request, place_request>>, raised |-> FALSE]

\* lines 382-429 for the ways the requests end; geocode is [kind, route]
road_info_google_roads(snap, place, geocode) ==
    The({ IF primary.raised \/ primary.road_info.snapped_road_name # "Unknown"
          THEN [road_info |-> primary.road_info, trace |-> primary.trace]
          ELSE LET fallback_road_name == geocode.route
                   fallback_road_type == RoadTypeOfName(fallback_road_name)
               IN  [road_info |->
                        IF geocode.kind = "route"
                        THEN Update(primary.road_info,
                                    [snapped_road_name |-> fallback_road_name,
                                     snapped_road_type |-> fallback_road_type,
                                     nearest_road_name |-> fallback_road_name,
                                     nearest_road_type |-> fallback_road_type])
                        ELSE primary.road_info,
                    trace |-> Append(primary.trace, Request("geocode"))]
          : primary \in {SnappedRoad(snap, place)} })

get_road_info_google_roads(up, lat, lon) ==
    road_info_google_roads(
        CASE up.roads = "ok" -> "ok"
          [] up.roads = "fallback" -> "no_points"
          [] up.roads = "http_error" -> "non_200"
          [] OTHER -> "exception",
        [kind |-> "ok", name |-> "Whitehall", types |-> {"route"}],
        [kind |-> IF up.roads = "fallback" THEN "route" ELSE "non_200",
         route |-> "A3212"]).road_info

-----------------------------------------------------------------------------
(* convert_to_british_grid and the transformer of st.cache_resource *)

\* get_transformer: the cached instance, or a construction that may raise
get_transformer(up, c) ==
    IF c.transformer THEN [raises |-> "", cache |-> c]
    ELSE IF up.projector = "ctor_error" THEN [raises |-> "CRSError", cache |-> c]
    ELSE [raises |-> "", cache |-> [c EXCEPT !.transformer = TRUE]]

\* convert_to_british_grid: get_transformer() is called before the try, so
\* its exception leaves the function; a failing transform gives (None, None)
convert_to_british_grid(up, lat, lon, c) ==
    LET t == get_transformer(up, c)
    IN  IF t.raises # ""
        THEN [raises |-> t.raises, cache |-> t.cache, easting |-> None, northing |-> None]
        ELSE IF up.projector = "transform_error"
        THEN [raises |-> "", cache |-> t.cache, easting |-> None, northing |-> None]
        ELSE [raises |-> "", cache |-> t.cache,
              easting |-> Some(<<"E", lat, lon>>), northing |-> Some(<<"N", lat, lon>>)]

-----------------------------------------------------------------------------
(* st.cache_data *)

EmptyCache ==
    [transformer |-> FALSE,
     get_elevation_data |-> <<>>, get_postcode_info |-> <<>>, get_geocode_details |-> <<>>,
     get_street_view_data |-> <<>>, get_ev_charging_stations |-> <<>>,
     get_nearby_amenities |-> <<>>, get_road_info_google_roads |-> <<>>]

\* Variant: the body runs on every call and its return value replaces the
\* stored one
MemoAlwaysRuns(c, fn, key, value) ==
    [value |-> value, cache |-> [c EXCEPT ![fn] = (key :> value) @@ c[fn]], hit |-> FALSE]

\* A call of the memoized function fn with arguments key: the stored value
\* on a hit; on a miss the body runs (value) and its return value is stored.
Memo(c, fn, key, value) ==
    IF key \in DOMAIN c[fn]
    THEN [value |-> c[fn][key], cache |-> c, hit |-> TRUE]
    ELSE [value |-> value, cache |-> [c EXCEPT ![fn] = (key :> value) @@ c[fn]], hit |-> FALSE]

-----------------------------------------------------------------------------
(* process_site *)

\* The record of lines 513-533
InitialResult(a) ==
    [latitude |-> a.lat, longitude |-> a.lon, easting |-> None, northing |-> None,
     elevation |-> "N/A", postcode |-> "N/A", ward |-> "N/A", district |-> "N/A",
     admin_county |-> "N/A", parish |-> "N/A", parliamentary_constituency |-> "N/A",
     ccg |-> "N/A", ced |-> "N/A", nuts |-> "N/A", lsoa |-> "N/A", msoa |-> "N/A",
     postcode_region |-> "N/A", postcode_country |-> "N/A",
     street |-> "N/A", street_number |-> "N/A", neighbourhood |-> "N/A", city |-> "N/A",
     county |-> "N/A", region |-> "N/A", country |-> "N/A", formatted_address |-> "N/A",
     fast_chargers |-> a.fast, rapid_chargers |-> a.rapid, ultra_chargers |-> a.ultra,
     required_kva |-> 0, traffic_speed |-> None, traffic_freeflow |-> None,
     traffic_congestion |-> "N/A", amenities |-> "N/A", amenities_summary |-> "N/A",
     amenities_counts |-> [t \in PlaceTypes |-> 0],
     amenities_proportions |-> [t \in PlaceTypes |-> 0],
     amenities_total |-> 0, snapped_road_name |-> "Unknown", snapped_road_type |-> "Unknown",
     nearest_road_name |-> "Unknown", nearest_road_type |-> "Unknown", place_id |-> None,
     competitor_ev_count |-> 0, competitor_ev_names |-> "None", ev_stations_details |-> <<>>,
     street_view_image_urls |-> <<>>, street_view_maps_link |-> None,
     google_maps_link |-> None, google_maps_dir_link |-> None, has_street_view |-> FALSE,
     aerial_view_url |-> None, competitor_radius |-> a.competitor_radius,
     amenities_radius |-> a.amenities_radius]

\* One entry of the invocation log
Invocation(adapter, a, network) ==
    [adapter |-> adapter, lat |-> a.lat, lon |-> a.lon, network |-> network]

\* The execution of the try block is threaded through a record s:
\*   result, cache, calls, exc (the exception in flight, "" if none) and
\*   geo (the local variable geo), with the network up and the TomTom key
\*   the adapters read.  A step is skipped once exc is set.
Raised(s) == s.exc # ""

\* lines 535-538
StepProject(s, a) ==
    LET g == convert_to_british_grid(s.up, a.lat, a.lon, s.cache)
        logged == [s EXCEPT !.calls = Append(@, Invocation("projector", a, FALSE)),
                            !.cache = g.cache]
    IN  IF g.raises # "" THEN [logged EXCEPT !.exc = g.raises]
        ELSE [logged EXCEPT !.result =
                 Update(@, [easting |-> g.easting, northing |-> g.northing,
                            required_kva |-> calculate_kva(a.fast, a.rapid, a.ultra,
                                                           a.fast_kw, a.rapid_kw, a.ultra_kw)])]

\* lines 540-543
StepElevation(s, a) ==
    LET m == Memo(s.cache, "get_elevation_data", <<a.lat, a.lon>>, get_elevation_data(s.up, a.lat, a.lon))
    IN  [s EXCEPT !.cache = m.cache,
                  !.calls = Append(@, Invocation("elevation", a, ~m.hit)),
                  !.result = Update(@, [elevation |-> m.value,
                                        aerial_view_url |-> Some(get_aerial_view_url(a.lat, a.lon))])]

GeoKeys == {"street", "street_number", "neighbourhood", "city", "county", "region",
            "country", "formatted_address", "postcode"}

\* lines 546-548
StepGeocode(s, a) ==
    LET m == Memo(s.cache, "get_geocode_details", <<a.lat, a.lon>>, get_geocode_details(s.up, a.lat, a.lon))
        geo == m.value
    IN  [s EXCEPT !.cache = m.cache,
                  !.calls = Append(@, Invocation("geocoder", a, ~m.hit)),
                  !.geo = geo,
                  !.result = Update(@, [k \in GeoKeys |-> Get(geo, k, "N/A")])]

\* Variant: the whole postcodes.io answer merged, its postcode written last
MergePostcodeInfoLaterWins(result, postcode_data, google_postcode) ==
    Update(SetItem(result, "postcode", google_postcode),
           [ward |-> postcode_data.admin_ward,
            district |-> postcode_data.admin_district,
            admin_county |-> postcode_data.admin_county,
            parish |-> postcode_data.parish,
            parliamentary_constituency |-> postcode_data.parliamentary_constituency,
            ccg |-> postcode_data.ccg, ced |-> postcode_data.ced,
            nuts |-> postcode_data.nuts, lsoa |-> postcode_data.lsoa,
            msoa |-> postcode_data.msoa,
            postcode_region |-> postcode_data.region,
            postcode_country |-> postcode_data.country,
            postcode |-> postcode_data.postcode])

\* lines 556-570: the administrative fields of postcodes.io, then Google's
\* postcode written back
MergePostcodeInfo(result, postcode_data, google_postcode) ==
    LET merged == Update(result,
            [ward |-> postcode_data.admin_ward,
             district |-> postcode_data.admin_district,
             admin_county |-> postcode_data.admin_county,
             parish |-> postcode_data.parish,
             parliamentary_constituency |-> postcode_data.parliamentary_constituency,
             ccg |-> postcode_data.ccg, ced |-> postcode_data.ced,
             nuts |-> postcode_data.nuts, lsoa |-> postcode_data.lsoa,
             msoa |-> postcode_data.msoa,
             postcode_region |-> postcode_data.region,
             postcode_country |-> postcode_data.country])
    IN  SetItem(merged, "postcode", google_postcode)

\* lines 551-570
StepPostcode(s, a) ==
    LET google_postcode == Get(s.geo, "postcode", "N/A")
        m == Memo(s.cache, "get_postcode_info", <<a.lat, a.lon>>, get_postcode_info(s.up, a.lat, a.lon))
    IN  [s EXCEPT !.cache = m.cache,
                  !.calls = Append(@, Invocation("postcodes", a, ~m.hit)),
                  !.result = MergePostcodeInfo(@, m.value, google_postcode)]

\* Variant: the free-flow speed stored under a misspelt key
StepTrafficTypo(s, a) ==
    LET traffic == get_tomtom_traffic(s.up, s.key, a.lat, a.lon)
    IN  [s EXCEPT !.calls = Append(@, Invocation("traffic", a, s.key)),
                  !.result = Update(@, [traffic_speed |-> traffic.speed,
                                        traffic_free_flow |-> traffic.freeFlow,
                                        traffic_congestion |-> traffic.congestion])]

\* lines 572-574: get_tomtom_traffic is not memoized; it sends a request
\* whenever a key is configured
StepTraffic(s, a) ==
    LET traffic == get_tomtom_traffic(s.up, s.key, a.lat, a.lon)
    IN  [s EXCEPT !.calls = Append(@, Invocation("traffic", a, s.key)),
                  !.result = Update(@, [traffic_speed |-> traffic.speed,
                                        traffic_freeflow |-> traffic.freeFlow,
                                        traffic_congestion |-> traffic.congestion])]

\* lines 576-580
StepAmenities(s, a) ==
    LET m == Memo(s.cache, "get_nearby_amenities", <<a.lat, a.lon, a.amenities_radius>>,
                  get_nearby_amenities(s.up, a.lat, a.lon, a.amenities_radius))
        amenities_data == m.value
    IN  [s EXCEPT !.cache = m.cache,
                  !.calls = Append(@, Invocation("amenities", a, ~m.hit)),
                  !.result = Update(@, [amenities |-> amenities_data.summary,
                                        amenities_summary |-> amenities_data.summary,
                                        amenities_counts |-> amenities_data.counts,
                                        amenities_proportions |-> amenities_data.proportions,
                                        amenities_total |-> amenities_data.total_found])]

\* lines 582-585
StepStations(s, a) ==
    LET m == Memo(s.cache, "get_ev_charging_stations", <<a.lat, a.lon, a.competitor_radius>>,
                  get_ev_charging_stations(s.up, a.lat, a.lon, a.competitor_radius))
        ev_stations == m.value
    IN  [s EXCEPT !.cache = m.cache,
                  !.calls = Append(@, Invocation("stations", a, ~m.hit)),
                  !.result = Update(@,
                      [competitor_ev_count |-> Len(ev_stations),
                       competitor_ev_names |->
                           IF ev_stations # <<>>
                           THEN Join("; ", [i \in 1..Len(ev_stations) |-> ev_stations[i].name])
                           ELSE "None",
                       ev_stations_details |-> ev_stations])]

RoadKeys == {"snapped_road_name", "snapped_road_type", "nearest_road_name",
             "nearest_road_type", "place_id"}

\* lines 587-589
StepRoads(s, a) ==
    LET m == Memo(s.cache, "get_road_info_google_roads", <<a.lat, a.lon>>,
                  get_road_info_google_roads(s.up, a.lat, a.lon))
        road_info == m.value
    IN  [s EXCEPT !.cache = m.cache,
                  !.calls = Append(@, Invocation("roads", a, ~m.hit)),
                  !.result = Update(@, [k \in RoadKeys |-> Get(road_info, k, "Unknown")])]

\* lines 591-596
StepStreetView(s, a) ==
    LET m == Memo(s.cache, "get_street_view_data", <<a.lat, a.lon>>,
                  get_street_view_data(s.up, a.lat, a.lon))
        sv == m.value
    IN  [s EXCEPT !.cache = m.cache,
                  !.calls = Append(@, Invocation("street_view", a, ~m.hit)),
                  !.result = Update(@,
                      [street_view_image_urls |-> sv.image_urls,
                       street_view_maps_link |-> Some(sv.maps_link),
                       has_street_view |-> sv.has_street_view,
                       google_maps_link |-> Some(google_maps_search_link(a.lat, a.lon)),
                       google_maps_dir_link |-> Some(google_maps_dir_link(a.lat, a.lon))])]

\* Variant: `except ValueError` in place of `except Exception`
CaughtOnlyValueError(exc) == exc = "ValueError"

\* The classes `except Exception` (line 598) catches: every exception the
\* body can raise derives from Exception.
CaughtByExceptException(exc) == exc \in {"CRSError", "ProjError", "TypeError", "KeyError", "ValueError"}

\* process_site(lat, lon, fast, ..., amenities_radius) on the memo tables c,
\* with the collaborators answering as in up and TOMTOM_API_KEY set iff key:
\* the returned record, the exception leaving the function ("" if none), the
\* exception the except clause handled, the memo tables and the invocations
process_site(a, c, up, key) ==
    LET s0 == [result |-> InitialResult(a), cache |-> c, calls |-> <<>>, exc |-> "", geo |-> <<>>,
               up |-> up, key |-> key]
        S1 == { IF Raised(s) THEN s ELSE StepProject(s, a) : s \in {s0} }
        S2 == { IF Raised(s) THEN s ELSE StepElevation(s, a) : s \in S1 }
        S3 == { IF Raised(s) THEN s ELSE StepGeocode(s, a) : s \in S2 }
        S4 == { IF Raised(s) THEN s ELSE StepPostcode(s, a) : s \in S3 }
        S5 == { IF Raised(s) THEN s ELSE StepTraffic(s, a) : s \in S4 }
        S6 == { IF Raised(s) THEN s ELSE StepAmenities(s, a) : s \in S5 }
        S7 == { IF Raised(s) THEN s ELSE StepStations(s, a) : s \in S6 }
        S8 == { IF Raised(s) THEN s ELSE StepRoads(s, a) : s \in S7 }
        S9 == { IF Raised(s) THEN s ELSE StepStreetView(s, a) : s \in S8 }
    IN  The({ [result |-> s.result,
               raises |-> IF Raised(s) /\ CaughtByExceptException(s.exc) THEN "" ELSE s.exc,
               handled |-> IF Raised(s) /\ CaughtByExceptException(s.exc) THEN s.exc ELSE "",
               cache |-> s.cache,
               calls |-> s.calls] : s \in S9 })

-----------------------------------------------------------------------------
(* Inputs *)

\* Sidebar defaults (lines 748-758)
fast_kw == 22
rapid_kw == 60
ultra_kw == 150
competitor_radius == 1000
amenities_radius == 500

\* Another value the amenities radius input can take (step 50)
AmenitiesRadii == {amenities_radius, amenities_radius + 50}

Args(lat, lon, fast, rapid, ultra, c_radius, a_radius) ==
    [lat |-> lat, lon |-> lon, fast |-> fast, rapid |-> rapid, ultra |-> ultra,
     fast_kw |-> fast_kw, rapid_kw |-> rapid_kw, ultra_kw |-> ultra_kw,
     competitor_radius |-> c_radius, amenities_radius |-> a_radius]

\* Texts typed into the Latitude / Longitude inputs
LatTexts == {"51", "95", "-91", "abc"}
LonTexts == {"0", "180", "200", "abc"}

\* Arguments process_site is exercised with directly
SiteArgs == {Args(51, 0, 2, 2, 1, competitor_radius, r) : r \in AmenitiesRadii}
            \cup {Args(95, 0, 2, 2, 1, competitor_radius, amenities_radius)}

\* Rows of an uploaded table: cells as read from the CSV
required_cols == {"latitude", "longitude", "fast_chargers", "rapid_chargers", "ultra_chargers"}

Row(lat, lon, fast, rapid, ultra) ==
    [latitude |-> lat, longitude |-> lon, fast_chargers |-> fast,
     rapid_chargers |-> rapid, ultra_chargers |-> ultra]

RowPool == {Row("51", "0", "2", "2", "1"),      \* a well-formed row
            Row("abc", "0", "2", "2", "1"),     \* non-numeric coordinate
            Row("95", "0", "2", "2", "1"),      \* latitude out of range
            Row("51", "200", "x", "2", "1")}    \* longitude out of range, non-numeric count

Tables ==
    {[columns |-> required_cols, rows |-> r] :
        r \in UNION {[1..n -> RowPool] : n \in 0..MaxRows}}
    \cup {[columns |-> required_cols \ {"ultra_chargers"}, rows |-> <<Row("51", "0", "2", "2", "1")>>]}

\* The tables uploaded once a batch has been handled in the session: one
\* with the required columns and one without
LaterTables ==
    {[columns |-> required_cols, rows |-> <<Row("51", "0", "2", "2", "1")>>],
     [columns |-> required_cols \ {"ultra_chargers"}, rows |-> <<Row("51", "0", "2", "2", "1")>>]}

-----------------------------------------------------------------------------
(* Initial state: a fresh process and a fresh session *)

NoRun == [handler |-> "none", entered |-> FALSE, args |-> <<>>,
          raises |-> "", handled |-> "", repeat |-> FALSE, input |-> <<>>]

InitSession ==
    /\ tomtom_key \in BOOLEAN
    /\ cache = EmptyCache
    /\ session_state = <<>>
    /\ pc = "idle"
    /\ df_input = [columns |-> {}, rows |-> <<>>]
    /\ idx = 0
    /\ results = <<>>
    /\ progress = <<0, 1>>
    /\ messages = <<>>
    /\ calls = <<>>
    /\ last = NoRun
    /\ ran_fully = {}
    /\ passed = <<>>
    /\ clicks = 0

Init ==
    /\ upstream \in {w \in Worlds : Faults(w) <= MaxSessionFaults}
    /\ InitSession
    /\ call = None
    /\ ret = None

InitSite ==
    /\ upstream \in {w \in Worlds : Faults(w) <= MaxFaults}
    /\ InitSession
    /\ call = None
    /\ ret = None

-----------------------------------------------------------------------------
(* Bookkeeping of a process_site execution *)

AllInvoked(cs) == [i \in 1..Len(cs) |-> cs[i].adapter] = AdapterOrder

\* What is recorded when handler `handler` has executed process_site(a) = r
Executed(handler, input, a, r) ==
    /\ cache' = r.cache
    /\ calls' = r.calls
    /\ last' = [handler |-> handler, entered |-> TRUE, args |-> a,
                raises |-> r.raises, handled |-> r.handled, repeat |-> a \in ran_fully,
                input |-> input]
    /\ ran_fully' = IF AllInvoked(r.calls) THEN ran_fully \cup {a} ELSE ran_fully

\* What is recorded when the handler returned without reaching process_site
NotExecuted(handler, input) ==
    /\ calls' = <<>>
    /\ last' = [NoRun EXCEPT !.handler = handler, !.input = input]
    /\ UNCHANGED <<cache, ran_fully>>

-----------------------------------------------------------------------------
(* process_site called directly *)

CallProcessSite ==
    /\ clicks < MaxRuns
    /\ \E a \in SiteArgs :
          \E r \in {process_site(a, cache, upstream, tomtom_key)} :
              /\ Executed("direct", <<>>, a, r)
              /\ results' = IF r.raises = "" THEN <<r.result>> ELSE <<>>
    /\ clicks' = clicks + 1
    /\ UNCHANGED <<call, ret>>
    /\ UNCHANGED <<upstream, tomtom_key, session_state, pc, df_input, idx,
                   progress, messages, passed>>

NextSite == CallProcessSite

SpecSite == InitSite /\ [][NextSite]_vars

-----------------------------------------------------------------------------
(* Single-site analysis: the "Analyse Site" button, lines 778-791 *)

\* Variant: the longitude test left out
ValidCoordinatesLatOnly(lat_float, lon_float) == -90 <= lat_float /\ lat_float <= 90

\* line 781, negated
ValidCoordinates(lat_float, lon_float) ==
    ~( ~(-90 <= lat_float /\ lat_float <= 90) \/ ~(-180 <= lon_float /\ lon_float <= 180) )

AnalyseSite ==
    /\ pc = "idle"
    /\ clicks < MaxRuns
    /\ clicks' = clicks + 1
    /\ \E lat \in LatTexts, lon \in LonTexts :
        LET input == <<lat, lon>>
            lat_float == float(lat)
            lon_float == float(lon)
            a == Args(lat_float.value, lon_float.value, 2, 2, 1, competitor_radius, amenities_radius)
        IN  IF lat_float.raises \/ lon_float.raises
            THEN /\ messages' = <<"error: Invalid coordinate format. Please enter numeric values.">>
                 /\ NotExecuted("single", input)
                 /\ UNCHANGED session_state
            ELSE IF ~ValidCoordinates(lat_float.value, lon_float.value)
            THEN /\ messages' = <<"error: Invalid coordinates.">>
                 /\ NotExecuted("single", input)
                 /\ UNCHANGED session_state
            ELSE \E r \in {process_site(a, cache, upstream, tomtom_key)} :
                 /\ Executed("single", input, a, r)
                 /\ IF r.raises # ""
                    THEN /\ messages' = <<"error: Error analysing site">>
                         /\ UNCHANGED session_state
                    ELSE /\ messages' = <<"success: Site analysis completed!">>
                         /\ session_state' = SetItem(session_state, "single_site", r.result)
    /\ UNCHANGED <<call, ret>>
    /\ UNCHANGED <<upstream, tomtom_key, pc, df_input, idx, results, progress, passed>>

NextSingle == AnalyseSite

SpecSingle == Init /\ [][NextSingle]_vars

-----------------------------------------------------------------------------
(* Batch processing: upload and "Process All Sites", lines 1041-1071 *)

\* Variant: only the coordinate columns are required
ColumnsOkCoordinatesOnly(table) == {"latitude", "longitude"} \subseteq table.columns

\* line 1046: all(col in df_input.columns for col in required_cols)
ColumnsOk(table) == \A col \in required_cols : col \in table.columns

\* lines 1041-1055: a table is uploaded, read and its columns checked;
\* with the columns present the loop is entered with an empty result list.
\* The script runs again on every upload, so a session sees several.
StartBatch ==
    /\ pc \in {"idle", "done"}
    /\ clicks < MaxRuns
    /\ clicks' = clicks + 1
    /\ \E table \in (IF pc = "idle" THEN Tables ELSE LaterTables) :
        /\ df_input' = table
        /\ IF ~ColumnsOk(table)
           THEN /\ messages' = <<"error: CSV must contain columns">>
                /\ pc' = "done"
                /\ UNCHANGED <<results, progress, idx, passed>>
           ELSE /\ messages' = <<>>
                /\ pc' = "batch"
                /\ results' = <<>>
                /\ progress' = <<0, 1>>
                /\ idx' = 1
                /\ passed' = <<>>
    /\ NotExecuted("upload", <<>>)
    /\ UNCHANGED <<call, ret>>
    /\ UNCHANGED <<upstream, tomtom_key, session_state>>

\* The conversions of lines 1060-1062, evaluated left to right
RowConversions(row) ==
    <<float(row.latitude), float(row.longitude), int(row.fast_chargers),
      int(row.rapid_chargers), int(row.ultra_chargers)>>

RowConverts(row) == \A i \in 1..5 : ~RowConversions(row)[i].raises

RowArgs(row) ==
    LET v == RowConversions(row)
    IN  Args(v[1].value, v[2].value, v[3].value, v[4].value, v[5].value,
             competitor_radius, amenities_radius)

\* Variant: the try/except around the whole loop, so that a failed row ends it
NextRowAbort(i, failed, n) == IF failed THEN n + 1 ELSE i + 1

\* The row the loop takes after row i of n: the try/except lies inside the
\* for loop, so a failed row is followed by the next one
NextRow(i, failed, n) == i + 1

\* Variant: progress_bar.progress inside the try, after results.append
ReportedProgressOnSuccess(previous, i, n, failed) == IF failed THEN previous ELSE <<i, n>>

\* line 1067: progress_bar.progress((idx + 1) / len(df_input)) follows the
\* try statement, so it runs whether the row failed or not; the fraction is
\* the pair <<numerator, denominator>>
ReportedProgress(previous, i, n, failed) == <<i, n>>

\* lines 1057-1067: one iteration of the loop
BatchRow ==
    /\ pc = "batch"
    /\ idx <= Len(df_input.rows)
    /\ LET row == df_input.rows[idx]
           n == Len(df_input.rows)
       IN  /\ IF ~RowConverts(row)
              THEN /\ NotExecuted("row", idx)
                   /\ messages' = Append(messages, "warning: Error processing site")
                   /\ idx' = NextRow(idx, TRUE, n)
                   /\ progress' = ReportedProgress(progress, idx, n, TRUE)
                   /\ UNCHANGED <<results, passed>>
              ELSE \E a \in {RowArgs(row)} :
                   \E r \in {process_site(a, cache, upstream, tomtom_key)} :
                       /\ Executed("row", idx, a, r)
                       /\ passed' = Append(passed, idx)
                       /\ IF r.raises # ""
                          THEN /\ messages' = Append(messages, "warning: Error processing site")
                               /\ UNCHANGED results
                          ELSE /\ results' = Append(results, r.result)
                               /\ UNCHANGED messages
                       /\ idx' = NextRow(idx, r.raises # "", n)
                       /\ progress' = ReportedProgress(progress, idx, n, r.raises # "")
    /\ UNCHANGED <<call, ret>>
    /\ UNCHANGED <<upstream, tomtom_key, session_state, pc, df_input, clicks>>

\* lines 1069-1071: the results are stored in the session
BatchFinish ==
    /\ pc = "batch"
    /\ idx > Len(df_input.rows)
    /\ session_state' = SetItem(session_state, "batch_results", results)
    /\ messages' = Append(messages, "success: Successfully processed sites")
    /\ pc' = "done"
    /\ UNCHANGED <<call, ret>>
    /\ UNCHANGED <<upstream, tomtom_key, cache, df_input, idx, results, progress,
                   calls, last, ran_fully, passed, clicks>>

NextBatch == StartBatch \/ BatchRow \/ BatchFinish

SpecBatch == Init /\ [][NextBatch]_vars

-----------------------------------------------------------------------------
(* Properties *)

InRange(lat, lon) == -90 <= lat /\ lat <= 90 /\ -180 <= lon /\ lon <= 180

ColumnsPresent == \A col \in required_cols : col \in df_input.columns

BatchStored == pc = "done" /\ ColumnsPresent /\ "batch_results" \in DOMAIN session_state

\* A failure marker: an entry that carries an error description
IsFailureMarker(entry) == "error" \in DOMAIN entry

NonNumericCoordinate(row) == float(row.latitude).raises \/ float(row.longitude).raises

\* C1: a batch of N rows whose only failing rows are rows with a non-numeric
\* coordinate stores exactly N results: a failure marker at the position of
\* each such row and the site record of row i at every other position i.
C1_ResultsParallelToRows ==
    (BatchStored /\ \A i \in 1..Len(df_input.rows) :
                        NonNumericCoordinate(df_input.rows[i]) \/ RowConverts(df_input.rows[i]))
    => LET stored == session_state.batch_results
           rows == df_input.rows
       IN  /\ Len(stored) = Len(rows)
           /\ \A i \in 1..Len(rows) :
                IF NonNumericCoordinate(rows[i])
                THEN IsFailureMarker(stored[i])
                ELSE /\ ~IsFailureMarker(stored[i])
                     /\ stored[i].latitude = RowArgs(rows[i]).lat
                     /\ stored[i].longitude = RowArgs(rows[i]).lon

\* The rows whose conversions succeed, in table order
ConvertibleRows(rows) ==
    SelectSeq([i \in 1..Len(rows) |-> i], LAMBDA i : RowConverts(rows[i]))

\* C2: when the batch has finished, process_site has been entered for every
\* row whose conversions succeed, whatever failed before it, and the stored
\* results are the records of exactly those rows in table order.
C2_FailedRowDoesNotAbortBatch ==
    BatchStored
    => LET stored == session_state.batch_results
           rows == df_input.rows
       IN  /\ passed = ConvertibleRows(rows)
           /\ Len(stored) = Len(passed)
           /\ \A j \in 1..Len(passed) :
                LET a == RowArgs(rows[passed[j]])
                IN  /\ stored[j].latitude = a.lat
                    /\ stored[j].longitude = a.lon
                    /\ stored[j].fast_chargers = a.fast
                    /\ stored[j].rapid_chargers = a.rapid
                    /\ stored[j].ultra_chargers = a.ultra

\* A finished batch in which a failing row precedes a well-formed one whose
\* record was stored
C2_Witness ==
    /\ BatchStored
    /\ Len(df_input.rows) >= 2
    /\ ~RowConverts(df_input.rows[1])
    /\ RowConverts(df_input.rows[Len(df_input.rows)])
    /\ Len(session_state.batch_results) >= 1
    /\ passed[Len(passed)] = Len(df_input.rows)

ErrorMessages == {"error: Invalid coordinate format. Please enter numeric values.",
                  "error: Invalid coordinates."}

\* The typed coordinates are not numbers, or lie outside [-90, 90] x [-180, 180]
BadInput(input) ==
    \/ float(input[1]).raises
    \/ float(input[2]).raises
    \/ ~InRange(float(input[1]).value, float(input[2]).value)

\* C3: a single-site analysis of non-numeric or out-of-range coordinates ends
\* with an error message, without entering process_site and without any
\* adapter invocation.
C3_InvalidCoordinatesRejected ==
    (last.handler = "single" /\ BadInput(last.input))
    => /\ ~last.entered
       /\ calls = <<>>
       /\ Len(messages) = 1
       /\ messages[1] \in ErrorMessages

\* (51, 200) rejected after (95, 0) was
C3_Witness ==
    /\ last.handler = "single"
    /\ last.input = <<"51", "200">>
    /\ ~last.entered
    /\ messages = <<"error: Invalid coordinates.">>
    /\ clicks = 2
    /\ "single_site" \notin DOMAIN session_state

\* C4: no adapter is invoked with a latitude outside [-90, 90] or a
\* longitude outside [-180, 180].
C4_AdaptersSeeValidCoordinates ==
    \A i \in 1..Len(calls) : InRange(calls[i].lat, calls[i].lon)

\* What the geocoder returned in the most recent execution
GeocoderAnswer == cache.get_geocode_details[<<last.args.lat, last.args.lon>>]

GeocoderInvoked == \E i \in 1..Len(calls) : calls[i].adapter = "geocoder"

\* C5: whenever the geocoder returned a postal code, the returned record's
\* postcode is that code.
C5_GeocoderPostcodeWins ==
    (last.entered /\ results # <<>> /\ GeocoderInvoked /\ "postcode" \in DOMAIN GeocoderAnswer)
    => results[1].postcode = GeocoderAnswer.postcode

\* Both sources returned a postal code, and they differ
C5_Witness ==
    /\ last.entered /\ results # <<>> /\ AllInvoked(calls)
    /\ "postcode" \in DOMAIN GeocoderAnswer
    /\ cache.get_postcode_info[<<last.args.lat, last.args.lon>>].postcode \notin {"N/A", GeocoderAnswer.postcode}
    /\ results[1].postcode = GeocoderAnswer.postcode

\* The kinds of answer on which an adapter returns its default
FailureKinds == {"http_error", "exception", "not_ok", "not_found"}

\* The fields of the record each adapter's answer decides (the panorama link
\* of get_street_view_data is built from the coordinate alone)
FieldsOf ==
    [elevation   |-> {"elevation"},
     geocoder    |-> GeoKeys,
     postcodes   |-> {"ward", "district", "admin_county", "parish", "parliamentary_constituency",
                      "ccg", "ced", "nuts", "lsoa", "msoa", "postcode_region", "postcode_country"},
     traffic     |-> {"traffic_speed", "traffic_freeflow", "traffic_congestion"},
     amenities   |-> {"amenities", "amenities_summary", "amenities_counts",
                      "amenities_proportions", "amenities_total"},
     stations    |-> {"competitor_ev_count", "competitor_ev_names", "ev_stations_details"},
     roads       |-> RoadKeys,
     street_view |-> {"street_view_image_urls", "has_street_view"}]

\* Exactly adapter f fails while every other collaborator succeeds
OnlyFails(f) == upstream[f] \in FailureKinds /\ \A a \in Adapters \ {f} : upstream[a] = "ok"

\* C6: when a single adapter fails and all others succeed, the fields of that
\* adapter hold their initial sentinels and every other field has its value
\* of the all-success run.
C6_SingleFailureIsolated ==
    \A f \in DOMAIN FieldsOf :
        (last.entered /\ results # <<>> /\ tomtom_key /\ OnlyFails(f))
        => LET result == results[1]
               initial == InitialResult(last.args)
               success == process_site(last.args, EmptyCache, AllOk, tomtom_key).result
           IN  \A k \in DOMAIN result :
                   result[k] = IF k \in FieldsOf[f] THEN initial[k] ELSE success[k]

\* C7: every execution of process_site returns; no exception leaves it.
C7_ProcessSiteNeverRaises ==
    last.entered => (last.raises = "" /\ results # <<>>)

\* An exception escaped convert_to_british_grid and a record was returned
C7_Witness ==
    /\ last.entered
    /\ last.handled = "CRSError"
    /\ last.raises = ""
    /\ results # <<>>
    /\ results[1].latitude = last.args.lat

\* C8: every execution of process_site invokes all adapters of the fixed
\* sequence.
C8_AllAdaptersInvoked ==
    last.entered => AllInvoked(calls)

\* C9: the returned record has exactly the fields of the initial record.
C9_FieldNamesFixed ==
    (last.entered /\ results # <<>>)
    => DOMAIN results[1] = DOMAIN InitialResult(last.args)

\* Every adapter ran and every merge step was applied to a successful answer
C9_Witness ==
    /\ last.entered /\ results # <<>> /\ AllInvoked(calls)
    /\ upstream = AllOk /\ tomtom_key
    /\ results[1].traffic_congestion # "N/A"
    /\ results[1].postcode # "N/A"

\* C10: an execution of process_site whose arguments were already run in full
\* issues no network request.
C10_RepeatIssuesNoRequest ==
    (last.entered /\ last.repeat) => \A i \in 1..Len(calls) : ~calls[i].network

-----------------------------------------------------------------------------
(* Functions exercised on their own.  The application state stays at its   *)
(* initial value; call holds the arguments and ret the returned value.     *)

InitAlone ==
    /\ upstream = AllOk
    /\ InitSession
    /\ ret = None

Idle == UNCHANGED <<upstream, tomtom_key, cache, session_state, pc, df_input, idx, results,
                    progress, messages, calls, last, ran_fully, passed, clicks, call>>

-----------------------------------------------------------------------------
(* get_tomtom_traffic on its own *)

\* Speeds in km/h an answer may carry, None for an absent key
CurrentSpeeds == {None, Some(0), Some(30), Some(60), Some(61), Some(70), Some(85),
                  Some(86), Some(90)}

FreeFlowSpeeds == {None, Some(0), Some(50), Some(100)}

InitTraffic ==
    /\ InitAlone
    /\ call \in [answer : Kinds.traffic, currentSpeed : CurrentSpeeds,
                  freeFlowSpeed : FreeFlowSpeeds]

CallTomTomTraffic ==
    /\ ret = None
    /\ ret' = Some(tomtom_traffic(tomtom_key, call.answer,
                                  [currentSpeed |-> call.currentSpeed,
                                   freeFlowSpeed |-> call.freeFlowSpeed]))
    /\ Idle

NextTraffic == CallTomTomTraffic

SpecTraffic == InitTraffic /\ [][NextTraffic]_vars

\* The bucket the ratio speed / freeflow belongs to
Bucket(speed, freeflow) ==
    IF speed * 100 > 85 * freeflow THEN "Low"
    ELSE IF speed * 100 > 60 * freeflow THEN "Medium"
    ELSE "High"

\* C11: with the key configured and a 200 answer, a present current speed
\* (0 included) and a free-flow speed above zero give the bucket of their
\* ratio (Low above 0.85, Medium above 0.60, else High), and the congestion
\* is "N/A" exactly when a speed is missing or the free-flow speed is zero.
C11_CongestionBuckets ==
    (ret # None /\ tomtom_key /\ call.answer = "ok") =>
        /\ (call.currentSpeed # None /\ call.freeFlowSpeed # None /\ call.freeFlowSpeed[1] > 0)
              => ret[1].congestion = Bucket(call.currentSpeed[1], call.freeFlowSpeed[1])
        /\ ret[1].congestion = "N/A"
              <=> (call.currentSpeed = None \/ call.freeFlowSpeed = None
                   \/ call.freeFlowSpeed = Some(0))

-----------------------------------------------------------------------------
(* get_ev_charging_stations on its own *)

\* Places a nearby search may return.  ev_match marks a name containing an
\* EV keyword of line 278 or the electric_vehicle_charging_station tag; a
\* missing place_id is the empty string, missing coordinates are None.
Tesla == [place_id |-> "p1", name |-> "Tesla Supercharger", ev_match |-> TRUE,
          lat |-> Some(511), lng |-> Some(1)]

PodPoint == [place_id |-> "p2", name |-> "Pod Point Charging Station", ev_match |-> TRUE,
             lat |-> Some(513), lng |-> Some(3)]

Shell == [place_id |-> "p3", name |-> "Shell", ev_match |-> FALSE,
          lat |-> Some(512), lng |-> Some(2)]

NoGeometry == [place_id |-> "p4", name |-> "EV Charging Bay", ev_match |-> TRUE,
               lat |-> None, lng |-> None]

NoPlaceId == [place_id |-> "", name |-> "Ionity", ev_match |-> TRUE,
              lat |-> Some(514), lng |-> Some(4)]

QueryAnswers ==
    {Answer("exception", <<>>), Answer("http_error", <<>>),
     Answer("ok", <<Tesla, Shell>>), Answer("ok", <<PodPoint, Tesla>>),
     Answer("ok", <<PodPoint, NoGeometry, NoPlaceId>>)}

\* The category query, the first keyword query and the four others (which
\* answer alike), and the way the detail lookup of each place ends
InitStations ==
    /\ InitAlone
    /\ tomtom_key = FALSE
    /\ call \in [category : QueryAnswers, first : QueryAnswers, others : QueryAnswers,
                  details : [{"p1", "p2", "p4"} -> DetailKinds]]

CallEvChargingStations ==
    /\ ret = None
    /\ ret' = Some(ev_charging_stations(
                      <<call.category, call.first>> \o
                          [i \in 1..(Len(search_terms) - 1) |-> call.others],
                      call.details))
    /\ Idle

NextStations == CallEvChargingStations

SpecStations == InitStations /\ [][NextStations]_vars

LookedUp(trace) == SelectSeq(trace, LAMBDA e : e.op = "get" /\ e.what \in {"p1", "p2", "p3", "p4"})

\* C12: a surviving candidate with coordinates whose detail lookup fails
\* (exception, non-200 status, provider status other than OK) is returned
\* with its basic candidate record.
C12_FailedDetailFallsBack ==
    ret # None =>
        \A i \in 1..Len(ret[1].unique_places) :
            LET basic_info == ret[1].unique_places[i]
            IN  (call.details[basic_info.place_id] # "ok"
                 /\ Truthy(basic_info.latitude) /\ Truthy(basic_info.longitude))
                    => \E j \in 1..Len(ret[1].ev_stations) : ret[1].ev_stations[j] = basic_info

\* C13: between any two consecutive HTTP requests of the function the
\* fixed delay is executed.
C13_DelayBetweenRequests ==
    ret # None =>
        \A i \in 1..(Len(ret[1].trace) - 1) :
            ~(ret[1].trace[i].op = "get" /\ ret[1].trace[i + 1].op = "get")

\* The places the queries returned with provider status OK
Returned ==
    {r \in {Tesla, PodPoint, Shell, NoGeometry, NoPlaceId} :
        \E a \in {call.category, call.first, call.others} :
            a.kind = "ok" /\ \E i \in 1..Len(a.results) : a.results[i] = r}

\* C14: at most one detail lookup is issued per place_id, no two returned
\* stations share a place_id, and every returned station is a place some
\* query returned that passes the keyword / category filter.
C14_DeduplicatedByPlaceId ==
    ret # None =>
        LET lookups == LookedUp(ret[1].trace)
            ev_stations == ret[1].ev_stations
        IN  /\ \A i, j \in 1..Len(lookups) : lookups[i].what = lookups[j].what => i = j
            /\ \A i, j \in 1..Len(ev_stations) :
                    ev_stations[i].place_id = ev_stations[j].place_id => i = j
            /\ \A i \in 1..Len(ev_stations) :
                    \E r \in Returned : r.place_id = ev_stations[i].place_id /\ r.ev_match

\* The same place in several query results, two stations returned
C14_Witness ==
    /\ ret # None
    /\ call.category = Answer("ok", <<Tesla, Shell>>)
    /\ call.first = Answer("ok", <<PodPoint, Tesla>>)
    /\ call.others = Answer("ok", <<PodPoint, Tesla>>)
    /\ Len(ret[1].ev_stations) = 2
    /\ Len(LookedUp(ret[1].trace)) = 2

-----------------------------------------------------------------------------
(* get_road_info_google_roads on its own *)

RoadNames == {"Whitehall", "A3212", "M25", "B3047", "Piccadilly Circus"}

InitRoads ==
    /\ InitAlone
    /\ tomtom_key = FALSE
    /\ call \in [snap : SnapKinds,
                  place : [kind : PlaceKinds, name : {"Whitehall", "M25"}, types : {{}, {"route"}}],
                  geocode : [kind : GeocodeKinds, route : RoadNames]]

CallRoadInfoGoogleRoads ==
    /\ ret = None
    /\ ret' = Some(road_info_google_roads(call.snap, call.place, call.geocode))
    /\ Idle

NextRoads == CallRoadInfoGoogleRoads

SpecRoads == InitRoads /\ [][NextRoads]_vars

\* The primary path yields no road name: no snapped point, no place id,
\* failed place details, or place details without a name
NoRoadName ==
    \/ call.snap \in {"non_200", "no_points", "no_place_id"}
    \/ call.snap = "ok" /\ call.place.kind \in {"non_200", "not_ok", "ok_no_name"}

\* C15: whenever the primary path yields no road name the fallback
\* reverse-geocode is attempted, and if it finds a route component the road
\* type is the one inferred from that road name.
C15_FallbackAttempted ==
    (ret # None /\ NoRoadName) =>
        /\ \E i \in 1..Len(ret[1].trace) : ret[1].trace[i] = Request("geocode")
        /\ call.geocode.kind = "route" =>
               /\ ret[1].road_info.snapped_road_name = call.geocode.route
               /\ ret[1].road_info.snapped_road_type =
                      RoadTypeOfName(call.geocode.route)

-----------------------------------------------------------------------------
(* calculate_kva on its own *)

\* Power ratings in kW the sidebar may be set to
FastRatings == {7, 22}

RapidRatings == {50, 60}

UltraRatings == {150, 350}

InitKva ==
    /\ InitAlone
    /\ tomtom_key = FALSE
    /\ call \in [fast : 0..MaxChargers, rapid : 0..MaxChargers, ultra : 0..MaxChargers,
                  fast_kw : FastRatings, rapid_kw : RapidRatings, ultra_kw : UltraRatings]

CallCalculateKva ==
    /\ ret = None
    /\ ret' = Some(calculate_kva(call.fast, call.rapid, call.ultra,
                                 call.fast_kw, call.rapid_kw, call.ultra_kw))
    /\ Idle

NextKva == CallCalculateKva

SpecKva == InitKva /\ [][NextKva]_vars

\* C16: the result is (fast*fast_kw + rapid*rapid_kw + ultra*ultra_kw) / 0.95
\* rounded to 2 decimals (the hundredth nearest to the quotient), never
\* negative, and 330.53 for 2, 2, 1 chargers rated 22, 60, 150 kW.
C16_KvaRoundedQuotient ==
    ret # None =>
        LET total_kw == call.fast * call.fast_kw + call.rapid * call.rapid_kw
                        + call.ultra * call.ultra_kw
            \* 95 * (hundredths returned) against 95 * (100 * total_kw / 0.95)
            off == 95 * ret[1] - total_kw * 100 * 100
        IN  /\ 2 * off <= 95 /\ 2 * off >= -95
            /\ ret[1] >= 0
            /\ (call = [fast |-> 2, rapid |-> 2, ultra |-> 1,
                        fast_kw |-> 22, rapid_kw |-> 60, ultra_kw |-> 150]) => ret[1] = 33053

C16_Witness ==
    /\ call = [fast |-> 2, rapid |-> 2, ultra |-> 1,
               fast_kw |-> 22, rapid_kw |-> 60, ultra_kw |-> 150]
    /\ ret = Some(33053)

-----------------------------------------------------------------------------
(* extract_brand_name on its own *)

\* The characters station names are made of
NameChars == {"B", "p", " ", "x"}

StationNames == UNION {[1..n -> NameChars] : n \in 0..MaxNameLen}

InitBrand ==
    /\ InitAlone
    /\ tomtom_key = FALSE
    /\ call \in [station_name : StationNames]

CallExtractBrandName ==
    /\ ret = None
    /\ ret' = Some(extract_brand_name(call.station_name))
    /\ Idle

NextBrand == CallExtractBrandName

SpecBrand == InitBrand /\ [][NextBrand]_vars

MatchesBrandKey(station_name) ==
    \E i \in 1..Len(brands) : Contains(Lower(station_name), brands[i][1])

\* C17: the empty name gives "Other"; a non-empty name that matches no
\* brand key gives its first two whitespace-delimited tokens, or its single
\* token when there is only one.
C17_BrandFallback ==
    ret # None =>
        LET station_name == call.station_name
            words == Split(station_name)
        IN  /\ station_name = <<>> => ret[1] = "Other"
            /\ (station_name # <<>> /\ ~MatchesBrandKey(station_name) /\ Len(words) >= 2)
                  => ret[1] = Text(words[1]) \o " " \o Text(words[2])
            /\ (station_name # <<>> /\ ~MatchesBrandKey(station_name) /\ Len(words) = 1)
                  => ret[1] = Text(words[1])

-----------------------------------------------------------------------------
(* classify_charger_power on its own *)

\* Station names, None for a missing name
ChargerNames ==
    {None} \cup {Some(n) : n \in {<<>>,
        <<"U", "l", "t", "r", "a", " ", "3", "5", "0", "k", "W">>,
        <<"D", "C">>,
        <<"F", "a", "s", "t", " ", "A", "C">>,
        <<"7", "k", "W">>,
        <<"6", "0", " ", "k", "w">>,
        <<"T", "e", "s", "c", "o">>,
        <<"B", "P", " ", "R", "a", "p", "i", "d">>,
        <<"R", "a", "p", "i", "d", " ", "u", "l", "t", "r", "a">>,
        <<"0", "k", "w">>,
        <<"T", "y", "p", "e", " ", "2">>}}

\* Ratings in kW, None for a missing rating
Ratings == {None, Some(0), Some(7), Some(22), Some(23), Some(50), Some(51), Some(150),
            Some(151), Some(350)}

InitPower ==
    /\ InitAlone
    /\ tomtom_key = FALSE
    /\ call \in [name : ChargerNames, rating : Ratings]

CallClassifyChargerPower ==
    /\ ret = None
    /\ ret' = Some(classify_charger_power(call.name, call.rating))
    /\ Idle

NextPower == CallClassifyChargerPower

SpecPower == InitPower /\ [][NextPower]_vars

HasKeyword(name, keywords) ==
    name # None /\ \E keyword \in keywords : Contains(Lower(name[1]), keyword)

\* C18: for every name, present or missing, and every rating the function
\* returns a tier and does not raise.  A positive rating decides the tier
\* whatever the name (Fast up to 22, Rapid (23-50kW) up to 50, Rapid
\* (51-150kW) up to 150, Ultra Rapid above).  Without a rating, and without
\* a kW figure in the name, the name decides: ultra-rapid keywords first,
\* then DC/rapid, then AC/fast, and "Unknown" when no keyword matches.
C18_TierForEveryInput ==
    ret # None =>
        LET tier == ret[1].value
            rating == call.rating
            by_name == rating = None /\ KwMatch(Lower(StrOf(call.name))) = None
        IN  /\ ret[1].raises = ""
            /\ (rating # None /\ rating # Some(0)) =>
                  tier = (IF rating[1] <= 22 THEN "Fast (<=22kW)"
                          ELSE IF rating[1] <= 50 THEN "Rapid (23-50kW)"
                          ELSE IF rating[1] <= 150 THEN "Rapid (51-150kW)"
                          ELSE "Ultra Rapid (>150kW)")
            /\ (by_name /\ HasKeyword(call.name, UltraKeywords)) => tier = "Ultra Rapid (>150kW)"
            /\ (by_name /\ ~HasKeyword(call.name, UltraKeywords)
                 /\ HasKeyword(call.name, RapidKeywords)) => tier = "Rapid (23-150kW)"
            /\ (by_name /\ ~HasKeyword(call.name, UltraKeywords)
                 /\ ~HasKeyword(call.name, RapidKeywords)
                 /\ HasKeyword(call.name, FastKeywords)) => tier = "Fast (<=22kW)"
            /\ (by_name /\ ~HasKeyword(call.name, UltraKeywords)
                 /\ ~HasKeyword(call.name, RapidKeywords)
                 /\ ~HasKeyword(call.name, FastKeywords)) => tier = "Unknown"

-----------------------------------------------------------------------------
(* get_nearby_amenities on its own *)

\* The answer of a nearby search: a raised exception, a non-200 status, or
\* status OK with no place, one place, an EV station only, or five places
\* of which one has an EV keyword in its name
SearchAnswers ==
    {[kind |-> "exception", results |-> <<>>], [kind |-> "http_error", results |-> <<>>],
     [kind |-> "ok", results |-> <<>>], [kind |-> "ok", results |-> NearbyPlaces("cafe")],
     [kind |-> "ok", results |-> NearbyPlaces("gas_station")],
     [kind |-> "ok", results |-> NearbyPlaces("restaurant")]}

\* The searches for restaurants and cafes, and the eight others (which
\* answer alike)
InitAmenities ==
    /\ InitAlone
    /\ tomtom_key = FALSE
    /\ call \in [restaurant : SearchAnswers, cafe : SearchAnswers, others : SearchAnswers]

AnswersOf(c) ==
    [t \in PlaceTypes |-> IF t = "restaurant" THEN c.restaurant
                          ELSE IF t = "cafe" THEN c.cafe ELSE c.others]

\* ret holds the returned dict, the places amenities_summary_list has an
\* entry for and the entries joined into the summary
CallNearbyAmenities ==
    /\ ret = None
    /\ ret' = Some([value |-> nearby_amenities(AnswersOf(call)),
                    examples |-> Examples(AnswersOf(call), PLACE_TYPES_FOR_STATS),
                    shown |-> Take(AmenitiesSummaryList(AnswersOf(call), PLACE_TYPES_FOR_STATS), 15)])
    /\ Idle

NextAmenities == CallNearbyAmenities

SpecAmenities == InitAmenities /\ [][NextAmenities]_vars

Completed == ret # None /\ \A t \in PlaceTypes : AnswersOf(call)[t].kind # "exception"

\* The results of type t whose name has no EV keyword
NonEv(t) ==
    LET a == AnswersOf(call)[t]
    IN  IF a.kind = "ok" THEN {i \in 1..Len(a.results) : ~a.results[i].ev_name} ELSE {}

\* C19: at most 3 example entries per category, at most 15 entries in the
\* summary, and a result whose name has an EV keyword is neither an
\* example nor counted.
C19_ExamplesCapped ==
    Completed =>
        /\ \A t \in PlaceTypes :
              /\ Cardinality({i \in 1..Len(ret[1].examples) : ret[1].examples[i].place_type = t}) <= 3
              /\ ret[1].value.counts[t] = Cardinality(NonEv(t))
        /\ Len(ret[1].shown) <= 15
        /\ \A i \in 1..Len(ret[1].examples) : ~ret[1].examples[i].place.ev_name

\* More than 3 results in a category and more than 15 examples in all
C19_Witness ==
    /\ Completed
    /\ ret[1].value.counts["restaurant"] = 4
    /\ Len(ret[1].examples) > 15
    /\ Len(ret[1].shown) = 15

\* C20: total_found is the sum of the per-category counts, every category
\* of the fixed tag set has a count and a proportion, each proportion is
\* the category's count as a percentage of total_found rounded to 2
\* decimals, and all proportions are 0.0 when total_found is 0.
C20_ProportionsOfTotal ==
    ret # None =>
        LET v == ret[1].value
        IN  /\ DOMAIN v.counts = PlaceTypes
            /\ DOMAIN v.proportions = PlaceTypes
            /\ v.total_found = SumCounts(v.counts, PlaceTypes)
            /\ \A t \in PlaceTypes :
                  IF v.total_found = 0 THEN v.proportions[t] = 0
                  ELSE LET off == v.proportions[t] * v.total_found - v.counts[t] * 100 * 100
                       IN  2 * off <= v.total_found /\ 2 * off >= -v.total_found

\* Several categories with hits, and the case of no hit at all
C20_Witness ==
    /\ ret # None
    /\ ret[1].value.total_found = 13
    /\ ret[1].value.counts["restaurant"] = 4
    /\ ret[1].value.proportions["restaurant"] = 3077

-----------------------------------------------------------------------------
(* Properties of the aggregator and the handlers, continued *)

\* C21: no exception leaves convert_to_british_grid: whenever the
\* projection fails, failure to obtain the transformer included,
\* process_site handles no exception, goes on to invoke every adapter and
\* returns a record with easting and northing None.
C21_ProjectionNeverRaises ==
    (last.entered /\ upstream.projector # "ok")
    => /\ last.handled = ""
       /\ AllInvoked(calls)
       /\ results # <<>>
       /\ results[1].easting = None
       /\ results[1].northing = None

\* C22: an upload that lacks a required column reports the error, enters
\* the loop for no row, invokes no adapter, and leaves the memo tables and
\* the stored batch results as they were.
C22_MissingColumnsRejected ==
    [][(clicks' = clicks + 1 /\ ~(\A col \in required_cols : col \in df_input'.columns))
       => /\ messages' = <<"error: CSV must contain columns">>
          /\ pc' = "done"
          /\ calls' = <<>>
          /\ ~last'.entered
          /\ cache' = cache
          /\ results' = results
          /\ passed' = passed
          /\ session_state' = session_state]_vars

\* A table without a required column uploaded after a batch was stored
C22_Witness ==
    /\ pc = "done"
    /\ ~ColumnsPresent
    /\ messages = <<"error: CSV must contain columns">>
    /\ "batch_results" \in DOMAIN session_state
    /\ session_state.batch_results # <<>>

\* progress as a fraction is at least the fraction `before`
NotBelow(before, after) == after[1] * before[2] >= before[1] * after[2]

\* C23 as stated, for every table: after row i of N the reported fraction
\* is i/N, failed rows included, and it is 1 when the run has finished.
C23_ProgressReachesOne ==
    ColumnsPresent =>
        /\ (pc = "batch" /\ idx > 1) => progress = <<idx - 1, Len(df_input.rows)>>
        /\ pc = "done" => progress[1] = progress[2]

\* C23, for runs over at least one row: after row i of N the reported
\* fraction is i/N, failed rows included; it never decreases during a run;
\* and it is N/N when a run over N >= 1 rows has finished.  (A run over a
\* table without rows reports nothing after the initial 0.)
C23_ProgressAfterEachRow ==
    /\ [](ColumnsPresent =>
            LET n == Len(df_input.rows)
            IN  /\ (pc = "batch" /\ idx > 1) => progress = <<idx - 1, n>>
                /\ (pc = "batch" /\ idx = 1) => progress = <<0, 1>>
                /\ (pc = "done" /\ n >= 1) => progress = <<n, n>>)
    /\ [][pc = "batch" => NotBelow(progress, progress')]_vars

\* A finished run whose last row failed
C23_Witness ==
    /\ ColumnsPresent
    /\ pc = "done"
    /\ Len(df_input.rows) = 2
    /\ ~RowConverts(df_input.rows[2])
    /\ progress = <<2, 2>>

-----------------------------------------------------------------------------
(* The fail-soft adapters on their own: get_elevation_data,                 *)
(* get_postcode_info and get_tomtom_traffic, with what each shows to the    *)
(* user (st.warning) and what it sends.                                     *)

\* The ways a request can fail to give a usable answer: "http_error" is a
\* status other than 200 (for postcodes.io, a payload whose status field is
\* not 200), "not_ok" a 200 answer whose provider status is not OK,
\* "not_found" a 200 answer with an empty result, "malformed" a body that
\* is not JSON (json() raises), "exception" a request that raises (timeout
\* included)
FailureAnswers ==
    [elevation |-> {"http_error", "not_ok", "malformed", "exception"},
     postcodes |-> {"http_error", "not_found", "malformed", "exception"},
     traffic   |-> {"http_error", "malformed", "exception"}]

\* lines 137-138: the only st.warning of get_elevation_data is in the
\* except clause
elevation_warnings(answer) ==
    IF answer \in {"malformed", "exception"} THEN <<"warning: Elevation API error">> ELSE <<>>

\* lines 180-181: the only st.warning of get_postcode_info is in the except
\* clause
postcode_warnings(answer) ==
    IF answer \in {"malformed", "exception"} THEN <<"warning: Postcode API error">> ELSE <<>>

\* lines 488-489 and 506-507: no key, no request and no warning; otherwise
\* the only st.warning is in the except clause
tomtom_warnings(key, answer) ==
    IF key /\ answer \in {"malformed", "exception"}
    THEN <<"warning: TomTom API error">>
    ELSE <<>>

\* lines 488-492: the request is sent only when a key is configured
tomtom_requests(key) == IF key THEN <<Request("flowSegmentData")>> ELSE <<>>

\* The flowSegmentData an answer may carry
Flows ==
    {[currentSpeed |-> None, freeFlowSpeed |-> None],
     [currentSpeed |-> Some(40), freeFlowSpeed |-> None],
     [currentSpeed |-> None, freeFlowSpeed |-> Some(50)],
     [currentSpeed |-> Some(40), freeFlowSpeed |-> Some(0)],
     [currentSpeed |-> Some(0), freeFlowSpeed |-> Some(50)],
     [currentSpeed |-> Some(40), freeFlowSpeed |-> Some(50)],
     [currentSpeed |-> Some(25), freeFlowSpeed |-> Some(50)],
     [currentSpeed |-> Some(48), freeFlowSpeed |-> Some(50)]}

Latitudes == {51, 52, 53}

Longitudes == {0, -1}

InitFailSoft ==
    /\ InitAlone
    /\ call \in
         [adapter : {"elevation"}, answer : {"ok"} \cup FailureAnswers.elevation,
          lat : Latitudes, lon : Longitudes, flow : {FlowSegmentData(51, 0)}]
         \cup
         [adapter : {"postcodes"}, answer : {"ok"} \cup FailureAnswers.postcodes,
          lat : Latitudes, lon : Longitudes, flow : {FlowSegmentData(51, 0)}]
         \cup
         [adapter : {"traffic"}, answer : {"ok"} \cup FailureAnswers.traffic,
          lat : {51}, lon : {0}, flow : Flows]

CallGetElevationData ==
    /\ ret = None
    /\ call.adapter = "elevation"
    /\ ret' = Some([value |-> get_elevation_data([AllOk EXCEPT !.elevation = call.answer],
                                                 call.lat, call.lon),
                    warnings |-> elevation_warnings(call.answer),
                    requests |-> <<Request("elevation")>>])
    /\ Idle

CallGetPostcodeInfo ==
    /\ ret = None
    /\ call.adapter = "postcodes"
    /\ ret' = Some([value |-> get_postcode_info([AllOk EXCEPT !.postcodes = call.answer],
                                                call.lat, call.lon),
                    warnings |-> postcode_warnings(call.answer),
                    requests |-> <<Request("postcodes")>>])
    /\ Idle

CallGetTomTomTraffic ==
    /\ ret = None
    /\ call.adapter = "traffic"
    /\ ret' = Some([value |-> tomtom_traffic(tomtom_key, call.answer, call.flow),
                    warnings |-> tomtom_warnings(tomtom_key, call.answer),
                    requests |-> tomtom_requests(tomtom_key)])
    /\ Idle

NextFailSoft == CallGetElevationData \/ CallGetPostcodeInfo \/ CallGetTomTomTraffic

SpecFailSoft == InitFailSoft /\ [][NextFailSoft]_vars

\* The request the adapter sent did not give a usable answer
UpstreamFailed ==
    /\ call.answer \in FailureAnswers[call.adapter]
    /\ call.adapter = "traffic" => tomtom_key

\* C24: whenever one of the three adapters returns its default because the
\* request failed in any way (exception or timeout, status other than 200,
\* malformed payload, provider status not OK), a warning is shown.
C24_DefaultComesWithWarning ==
    (ret # None /\ UpstreamFailed) => ret[1].warnings # <<>>

\* C27: the traffic result is all-or-nothing: congestion is "N/A" exactly
\* when speed and freeFlow are both None, it is Low, Medium or High exactly
\* when both are the speeds received, and without a key the default is
\* returned and no request is sent.
C27_TrafficAllOrNothing ==
    (ret # None /\ call.adapter = "traffic")
    => LET t == ret[1].value
       IN  /\ t.congestion \in {"N/A", "Low", "Medium", "High"}
           /\ (t.congestion = "N/A") <=> (t.speed = None /\ t.freeFlow = None)
           /\ (t.congestion # "N/A")
              <=> /\ t.speed # None
                  /\ t.freeFlow # None
                  /\ t.speed = call.flow.currentSpeed
                  /\ t.freeFlow = call.flow.freeFlowSpeed
           /\ ~tomtom_key => (t = TrafficDefault /\ ret[1].requests = <<>>)

\* A 200 answer that carries a current speed but no free-flow speed: the
\* speed received is not passed on
C27_Witness ==
    /\ ret # None
    /\ call.adapter = "traffic"
    /\ tomtom_key
    /\ call.answer = "ok"
    /\ call.flow.currentSpeed = Some(40)
    /\ call.flow.freeFlowSpeed = None
    /\ ret[1].value = TrafficDefault
    /\ ret[1].requests # <<>>

-----------------------------------------------------------------------------
(* The CSV export of the single-site page, lines 980-1022 *)

\* lines 980-1020: the columns in order, each with the key of the site
\* record it reads and the default of site.get (Latitude and Longitude are
\* read with site[...]; the record always has the two keys)
ExportColumns ==
    << <<"Latitude", "latitude", 0>>, <<"Longitude", "longitude", 0>>,
       <<"Easting", "easting", "N/A">>, <<"Northing", "northing", "N/A">>,
       <<"Elevation (m)", "elevation", "N/A">>, <<"Postcode", "postcode", "N/A">>,
       <<"Address", "formatted_address", "N/A">>, <<"Street", "street", "N/A">>,
       <<"Street Number", "street_number", "N/A">>, <<"City", "city", "N/A">>,
       <<"County", "county", "N/A">>, <<"Region", "region", "N/A">>,
       <<"Country", "country", "N/A">>, <<"Ward", "ward", "N/A">>,
       <<"District", "district", "N/A">>, <<"Admin County", "admin_county", "N/A">>,
       <<"Parish", "parish", "N/A">>,
       <<"Parliamentary Constituency", "parliamentary_constituency", "N/A">>,
       <<"CCG", "ccg", "N/A">>, <<"CED", "ced", "N/A">>, <<"NUTS", "nuts", "N/A">>,
       <<"LSOA", "lsoa", "N/A">>, <<"MSOA", "msoa", "N/A">>,
       <<"Postcode Region", "postcode_region", "N/A">>,
       <<"Postcode Country", "postcode_country", "N/A">>,
       <<"Fast Chargers", "fast_chargers", 0>>, <<"Rapid Chargers", "rapid_chargers", 0>>,
       <<"Ultra Chargers", "ultra_chargers", 0>>, <<"Required kVA", "required_kva", "N/A">>,
       <<"Road Name", "snapped_road_name", "Unknown">>,
       <<"Road Type", "snapped_road_type", "Unknown">>,
       <<"Traffic Congestion", "traffic_congestion", "N/A">>,
       <<"Competitor EV Count", "competitor_ev_count", 0>>,
       <<"Competitor Names", "competitor_ev_names", "None">>,
       <<"Amenities Total", "amenities_total", 0>>,
       <<"Amenities Summary", "amenities_summary", "N/A">>,
       <<"Google Maps Link", "google_maps_link", "">>,
       <<"Street View Link", "street_view_maps_link", "">>,
       <<"Aerial View Link", "aerial_view_url", "">> >>

\* export_data: column |-> site.get(key, default); the default is used only
\* for a key the record lacks
export_data(site) ==
    [c \in {ExportColumns[i][1] : i \in DOMAIN ExportColumns} |->
        The({ Get(site, ExportColumns[i][2], ExportColumns[i][3]) :
              i \in {j \in DOMAIN ExportColumns : ExportColumns[j][1] = c} })]

\* The columns whose value process_site initialises to None
NullableColumns ==
    {"Easting", "Northing", "Google Maps Link", "Street View Link", "Aerial View Link"}

\* line 1021, pd.DataFrame([export_data]).to_csv(index=False): a None
\* value is written as an empty cell.  The columns written empty.
EmptyCells(row) == {c \in NullableColumns : row[c] = None}

\* C25: in the export row of every record process_site returns, no cell is
\* empty, and a road whose name or type is not known is written with the
\* sentinel "N/A" (not with another word).
C25_UnavailableExportedAsNA ==
    (last.entered /\ results # <<>>)
    => LET row == export_data(results[1])
       IN  /\ EmptyCells(row) = {}
           /\ row["Road Name"] # "Unknown"
           /\ row["Road Type"] # "Unknown"

-----------------------------------------------------------------------------
(* classify_road_type_from_name on its own *)

MaxWords == 3

\* The words road names are made of ("" gives a leading, trailing or
\* doubled blank)
RoadWords ==
    {<<>>, <<"A">>, <<"A", "1", "2">>, <<"1", "2">>, <<"B", "3">>, <<"M", "2", "5">>,
     <<"B", "y", "p", "a", "s", "s">>, <<"W", "a", "y">>, <<"R", "o", "a", "d">>,
     <<"C", "i", "r", "c", "u", "s">>, <<"H", "i", "g", "h">>,
     <<"U", "n", "k", "n", "o", "w", "n">>}

RECURSIVE JoinWords(_)
\* " ".join(words)
JoinWords(words) ==
    IF words = <<>> THEN <<>>
    ELSE IF Len(words) = 1 THEN words[1]
    ELSE words[1] \o <<" ">> \o JoinWords(Tail(words))

InitRoadName ==
    /\ InitAlone
    /\ tomtom_key = FALSE
    /\ \E n \in 0..MaxWords : \E words \in [1..n -> RoadWords] :
          call = [road_name |-> JoinWords(words)]

CallClassifyRoadTypeFromName ==
    /\ ret = None
    /\ ret' = Some(classify_road_type_from_name(call.road_name))
    /\ Idle

NextRoadName == CallClassifyRoadTypeFromName

SpecRoadName == InitRoadName /\ [][NextRoadName]_vars

\* The name starts with the letter (in either case) and the first word
\* after that letter is a number
LetterThenDigits(name, letter) ==
    /\ name # <<>>
    /\ Lower(name)[1] = letter
    /\ \E words \in {Split(Tail(name))} : words # <<>> /\ IsDigit(words[1])

\* The first match in the stated order
FirstMatch(name) ==
    IF name = <<>> \/ name = UnknownRoad THEN "Local Road"
    ELSE IF AnyKeyword(Lower(name), MotorwayKeywords) THEN "Motorway"
    ELSE IF LetterThenDigits(name, "a") THEN "A Road"
    ELSE IF LetterThenDigits(name, "b") THEN "B Road"
    ELSE IF AnyKeyword(Lower(name), DualCarriagewayKeywords) THEN "Dual Carriageway"
    ELSE IF AnyKeyword(Lower(name), StreetKeywords) THEN "Local Road"
    ELSE IF AnyKeyword(Lower(name), RoundaboutKeywords) THEN "Roundabout"
    ELSE "Local Road"

\* C26: for every name the function returns the first match in the order
\* empty or "Unknown Road", motorway keyword, A and digits, B and digits,
\* dual carriageway keyword, street keyword, roundabout keyword, default;
\* so a name classified Roundabout holds no street keyword.
C26_FirstMatchInPriority ==
    ret # None
    => /\ ret[1].raises = ""
       /\ ret[1].value = FirstMatch(call.road_name)
       /\ ret[1].value = "Roundabout" => ~AnyKeyword(Lower(call.road_name), StreetKeywords)

-----------------------------------------------------------------------------
(* process_site in a process whose collaborators recover *)

\* The failing collaborators answer normally from now on.  The memo tables
\* of st.cache_data are not touched: no adapter sets a ttl and nothing
\* clears them.
Recover ==
    /\ upstream # AllOk
    /\ upstream' = AllOk
    /\ UNCHANGED <<tomtom_key, cache, session_state, pc, df_input, idx, results, progress,
                   messages, calls, last, ran_fully, passed, clicks, call, ret>>

NextRecover == CallProcessSite \/ Recover

SpecRecover == InitSite /\ [][NextRecover]_vars

\* The memoized adapters the record's location fields come from, with the
\* name each has in the invocation log
LocationAdapters ==
    [get_elevation_data |-> "elevation", get_geocode_details |-> "geocoder",
     get_postcode_info |-> "postcodes"]

\* The stored value is the default the adapter returns after a failure
StoredDefault(c, fn, key) ==
    /\ key \in DOMAIN c[fn]
    /\ CASE fn = "get_elevation_data" -> c[fn][key] = "N/A"
         [] fn = "get_geocode_details" -> DOMAIN c[fn][key] = {}
         [] OTHER -> c[fn][key] = [k \in PostcodeKeys |-> "N/A"]

\* C28: once a memoized adapter has returned its default for a coordinate,
\* every later process_site call for that coordinate gets the default again
\* from the memo table: the adapter sends no request and the stored value
\* stays, also after the collaborator has recovered.
C28_DefaultStaysCached ==
    [][(clicks' = clicks + 1 /\ last'.entered)
       => LET key == <<last'.args.lat, last'.args.lon>>
              invoked(fn) == {i \in 1..Len(calls') : calls'[i].adapter = LocationAdapters[fn]}
          IN  /\ \A fn \in DOMAIN LocationAdapters :
                    StoredDefault(cache, fn, key)
                    => /\ StoredDefault(cache', fn, key)
                       /\ \A i \in invoked(fn) : ~calls'[i].network
              /\ (StoredDefault(cache, "get_elevation_data", key)
                  /\ invoked("get_elevation_data") # {})
                 => results'[1].elevation = "N/A"
              /\ (StoredDefault(cache, "get_geocode_details", key)
                  /\ invoked("get_geocode_details") # {})
                 => results'[1].street = "N/A"
              /\ (StoredDefault(cache, "get_postcode_info", key)
                  /\ invoked("get_postcode_info") # {})
                 => results'[1].ward = "N/A"]_vars

\* A second call for a coordinate whose elevation lookup failed the first
\* time, made after the collaborators have recovered
C28_Witness ==
    /\ upstream = AllOk
    /\ last.entered
    /\ AllInvoked(calls)
    /\ StoredDefault(cache, "get_elevation_data", <<last.args.lat, last.args.lon>>)
    /\ \E i \in 1..Len(calls) : calls[i].adapter = "elevation" /\ ~calls[i].network
    /\ results # <<>>
    /\ results[1].elevation = "N/A"

-----------------------------------------------------------------------------
(* Properties of the single-site handler, continued *)

\* The typed texts are not both numbers, or the numbers are out of range
RejectedInput(input) ==
    \/ input[1] \notin DOMAIN Numerals
    \/ input[2] \notin DOMAIN Numerals
    \/ ~InRange(Numerals[input[1]], Numerals[input[2]])

\* C30: an analysis of non-numeric or out-of-range coordinates leaves the
\* stored single-site record as it was, and the stored record changes only
\* in a click in which process_site returned.
C30_RejectedKeepsStoredSite ==
    [][clicks' = clicks + 1
       => /\ (last'.handler = "single" /\ RejectedInput(last'.input))
             => session_state' = session_state
          /\ session_state' # session_state
             => /\ last'.entered
                /\ last'.raises = ""
                /\ session_state'.single_site.latitude = last'.args.lat
                /\ session_state'.single_site.longitude = last'.args.lon]_vars

\* (95, 0) rejected after (51, 0) was analysed: the record of (51, 0) stays
C30_Witness ==
    /\ last.handler = "single"
    /\ last.input = <<"95", "0">>
    /\ ~last.entered
    /\ messages = <<"error: Invalid coordinates.">>
    /\ "single_site" \in DOMAIN session_state
    /\ session_state.single_site.latitude = 51
    /\ session_state.single_site.longitude = 0

-----------------------------------------------------------------------------
(* Properties of get_road_info_google_roads, continued *)

\* The primary path reached the place details and took the road name from
\* them (line 402)
PrimarySuppliedName == call.snap = "ok" /\ call.place.kind \in {"ok", "ok_no_name"}

\* C29: in every result nearest_road_name is "Unknown" or the snapped road
\* name, and nearest_road_type is "Unknown" or the snapped road type; the
\* two are set only by the reverse-geocode fallback and are "Unknown" when
\* the primary path supplied the road name.
C29_NearestIsUnknownOrSnapped ==
    ret # None
    => LET r == ret[1].road_info
           fallback_sent == \E i \in 1..Len(ret[1].trace) : ret[1].trace[i] = Request("geocode")
       IN  /\ r.nearest_road_name \in {"Unknown", r.snapped_road_name}
           /\ r.nearest_road_type \in {"Unknown", r.snapped_road_type}
           /\ (r.nearest_road_name # "Unknown" \/ r.nearest_road_type # "Unknown")
              => (fallback_sent /\ call.geocode.kind = "route")
           /\ PrimarySuppliedName
              => (r.nearest_road_name = "Unknown" /\ r.nearest_road_type = "Unknown")

\* The fallback found the route A3212 after a snap without points
C29_Witness ==
    /\ ret # None
    /\ call.snap = "no_points"
    /\ call.geocode = [kind |-> "route", route |-> "A3212"]
    /\ ret[1].road_info.nearest_road_name = "A3212"
    /\ ret[1].road_info.snapped_road_name = "A3212"
    /\ ret[1].road_info.nearest_road_type = "A Road"
    /\ ret[1].road_info.snapped_road_type = "A Road"

====
